---------------------------- MODULE Spec2Model ----------------------------
(***************************************************************************)
(* Model of the object-counter backend: the safety pipeline                *)
(* (services/safety.py), the YOLO count aggregation (services/yolo.py),    *)
(* the few-shot registry (services/few_shot.py) and the counting           *)
(* endpoints (api/counting.py, api/few_shot.py).                           *)
(*                                                                         *)
(* Python strings are modelled as sequences of one-character strings so    *)
(* that lower(), substring tests and suffix tests are computed and not     *)
(* assumed.  Safety confidences and brightness are in hundredths           *)
(* (0.8 = 80); detector confidences are in units of 1/10000.               *)
(***************************************************************************)
EXTENDS Integers, Sequences, FiniteSets, TLC

(***************************************************************************)
(* Strings                                                                 *)
(***************************************************************************)
UpperChars ==
  <<"A","B","C","D","E","F","G","H","I","J","K","L","M",
    "N","O","P","Q","R","S","T","U","V","W","X","Y","Z">>

LowerChars ==
  <<"a","b","c","d","e","f","g","h","i","j","k","l","m",
    "n","o","p","q","r","s","t","u","v","w","x","y","z">>

\* str.lower() on one character
ToLowerChar(c) ==
  IF \E i \in 1..Len(UpperChars) : UpperChars[i] = c
    THEN LowerChars[CHOOSE i \in 1..Len(UpperChars) : UpperChars[i] = c]
    ELSE c

\* str.lower()
Lower(s) == [i \in 1..Len(s) |-> ToLowerChar(s[i])]

\* Python "needle in hay" on strings
Contains(needle, hay) ==
  \E i \in 1..(Len(hay) - Len(needle) + 1) :
     SubSeq(hay, i, i + Len(needle) - 1) = needle

\* str.endswith
EndsWith(s, suffix) ==
  /\ Len(suffix) <= Len(s)
  /\ SubSeq(s, Len(s) - Len(suffix) + 1, Len(s)) = suffix

\* str.startswith
StartsWith(s, prefix) ==
  /\ Len(prefix) <= Len(s)
  /\ SubSeq(s, 1, Len(prefix)) = prefix

\* any(k in s for k in keywords)
AnyContained(keywords, s) ==
  \E i \in 1..Len(keywords) : Contains(keywords[i], s)

Max(a, b) == IF a >= b THEN a ELSE b

(***************************************************************************)
(* Safety pipeline : keyword tables                                        *)
(***************************************************************************)
kw_vehicles ==
  << <<"t", "a", "n", "k">>,
     <<"a", "r", "m", "o", "r", "e", "d">>,
     <<"m", "i", "l", "i", "t", "a", "r", "y">>,
     <<"c", "o", "m", "b", "a", "t">>,
     <<"b", "a", "t", "t", "l", "e">>,
     <<"w", "a", "r">>,
     <<"d", "e", "f", "e", "n", "s", "e">> >>

kw_aircraft ==
  << <<"f", "i", "g", "h", "t", "e", "r">>,
     <<"b", "o", "m", "b", "e", "r">>,
     <<"h", "e", "l", "i", "c", "o", "p", "t", "e", "r">>,
     <<"d", "r", "o", "n", "e">>,
     <<"m", "i", "l", "i", "t", "a", "r", "y", " ", "a", "i", "r", "c", "r", "a", "f", "t">> >>

kw_ships ==
  << <<"w", "a", "r", "s", "h", "i", "p">>,
     <<"b", "a", "t", "t", "l", "e", "s", "h", "i", "p">>,
     <<"d", "e", "s", "t", "r", "o", "y", "e", "r">>,
     <<"s", "u", "b", "m", "a", "r", "i", "n", "e">>,
     <<"n", "a", "v", "a", "l">> >>

kw_weapons ==
  << <<"m", "i", "s", "s", "i", "l", "e">>,
     <<"r", "o", "c", "k", "e", "t">>,
     <<"a", "r", "t", "i", "l", "l", "e", "r", "y">>,
     <<"c", "a", "n", "n", "o", "n">>,
     <<"w", "e", "a", "p", "o", "n">> >>

kw_equipment ==
  << <<"r", "a", "d", "a", "r">>,
     <<"c", "o", "m", "m", "a", "n", "d">>,
     <<"c", "o", "n", "t", "r", "o", "l">>,
     <<"m", "i", "l", "i", "t", "a", "r", "y", " ", "b", "a", "s", "e">>,
     <<"b", "a", "r", "r", "a", "c", "k", "s">> >>

\* self.military_keywords, in dict insertion order
military_keywords ==
  <<kw_vehicles, kw_aircraft, kw_ships, kw_weapons, kw_equipment>>

military_object_types ==
  << <<"t", "a", "n", "k">>,
     <<"m", "i", "l", "i", "t", "a", "r", "y">>,
     <<"a", "r", "m", "o", "r", "e", "d">>,
     <<"c", "o", "m", "b", "a", "t">>,
     <<"b", "a", "t", "t", "l", "e">>,
     <<"w", "a", "r">>,
     <<"d", "e", "f", "e", "n", "s", "e">> >>

military_filename_keywords ==
  << <<"t", "a", "n", "k">>,
     <<"m", "i", "l", "i", "t", "a", "r", "y">>,
     <<"a", "r", "m", "o", "r">>,
     <<"c", "o", "m", "b", "a", "t">>,
     <<"b", "a", "t", "t", "l", "e">>,
     <<"w", "a", "r">>,
     <<"d", "e", "f", "e", "n", "s", "e">>,
     <<"s", "o", "l", "d", "i", "e", "r">>,
     <<"v", "e", "h", "i", "c", "l", "e">> >>

(***************************************************************************)
(* Safety pipeline : MilitaryVehicleDetector                               *)
(***************************************************************************)
\* Fallback brightness when _calculate_brightness raises (0.3)
BrightnessFallback == 30

\* BasicBlock._calculate_brightness: the mean grey level of the pixels
_calculate_brightness(image) == image.brightness

\* detect_military_content calls self._calculate_brightness, but the method
\* is defined on BasicBlock, not on MilitaryVehicleDetector: the attribute
\* lookup raises AttributeError, which the inner except turns into 0.3.
CalculateBrightnessResolves == FALSE

\* The preprocessing and the forward pass: Normalize has 3-channel mean/std
\* and the first convolution takes 3 channels, so any image whose tensor
\* does not have 3 channels raises inside the outer try.
ScorerFails(image) == image.mode # "RGB"

\* The first keyword of one category found in the lowered object type
\* (the inner loop breaks at the first hit), as a 0/1-element sequence.
FirstKeyword(keywords, object_lower) ==
  IF AnyContained(keywords, object_lower)
    THEN LET i == CHOOSE j \in 1..Len(keywords) :
                     /\ Contains(keywords[j], object_lower)
                     /\ \A k \in 1..(j - 1) : ~Contains(keywords[k], object_lower)
         IN  <<keywords[i]>>
    ELSE <<>>

_analyze_object_type(object_type) ==
  LET object_lower == Lower(object_type)
      detected == FirstKeyword(military_keywords[1], object_lower)
                    \o FirstKeyword(military_keywords[2], object_lower)
                    \o FirstKeyword(military_keywords[3], object_lower)
                    \o FirstKeyword(military_keywords[4], object_lower)
                    \o FirstKeyword(military_keywords[5], object_lower)
  IN  [risk_level        |-> IF Len(detected) > 0 THEN "high" ELSE "low",
       detected_keywords |-> detected]

\* _make_safety_decision with the visual threshold taken strictly
_make_safety_decision_strict(is_military, confidence, text_analysis, object_type) ==
  IF AnyContained(military_object_types, Lower(object_type)) THEN "block"
  ELSE IF is_military /\ confidence > 80 THEN "block"
  ELSE IF text_analysis.risk_level = "high" THEN "block"
  ELSE "allow"

_make_safety_decision(is_military, confidence, text_analysis, object_type) ==
  IF AnyContained(military_object_types, Lower(object_type)) THEN "block"
  ELSE IF is_military /\ confidence >= 80 THEN "block"
  ELSE IF text_analysis.risk_level = "high" THEN "block"
  ELSE "allow"

\* The simulated visual signal of detect_military_content: the pair
\* (is_military, military_confidence).  Aspect-ratio tests are w/h compared
\* with a decimal, computed by cross-multiplication.
VisualSignal(image, filename) ==
  LET w == image.width
      h == image.height
      pixels == w * h
      brightness == IF CalculateBrightnessResolves
                      THEN _calculate_brightness(image)
                      ELSE BrightnessFallback
      filename_lower == Lower(filename)
      has_military_filename == AnyContained(military_filename_keywords, filename_lower)
      d1 == /\ has_military_filename
            /\ \/ pixels > 100000
               \/ brightness < 40
               \/ 10 * w < 5 * h
               \/ 10 * w > 25 * h
      c1 == IF d1 THEN 85 ELSE 0
      d2 == /\ ~has_military_filename
            /\ pixels > 500000
            /\ 10 * w >= 3 * h
            /\ w <= 3 * h
            /\ brightness < 20
      c2 == IF d2 THEN 80 ELSE c1
      d3 == pixels > 1000000 /\ has_military_filename
      c3 == IF d3 THEN Max(c2, 90) ELSE c2
      d4 == pixels > 800000 /\ brightness < 15 /\ has_military_filename
      c4 == IF d4 THEN Max(c3, 85) ELSE c3
      simulated == d1 \/ d2 \/ d3 \/ d4
  IN  [is_military |-> simulated,
       confidence  |-> IF simulated THEN Max(0, c4) ELSE 0]

UnknownAnalysis == [risk_level |-> "unknown", detected_keywords |-> <<>>]

\* detect_military_content from the text analysis on: the result built from
\* the visual signal (is_military, military_confidence) and the object type
DetectionFromSignal(sig, object_type) ==
  LET text_analysis == _analyze_object_type(object_type)
  IN  [is_military_detected |-> sig.is_military,
       military_confidence  |-> sig.confidence,
       text_analysis        |-> text_analysis,
       safety_decision      |-> _make_safety_decision(
                                  sig.is_military, sig.confidence,
                                  text_analysis, object_type),
       error                |-> FALSE]

detect_military_content(image, object_type, filename) ==
  IF ScorerFails(image)
    THEN [is_military_detected |-> FALSE,
          military_confidence  |-> 0,
          text_analysis        |-> UnknownAnalysis,
          safety_decision      |-> "allow",
          error                |-> TRUE]
    ELSE DetectionFromSignal(VisualSignal(image, filename), object_type)

(***************************************************************************)
(* Safety pipeline : SafetyPipeline                                        *)
(***************************************************************************)
ReasonHighConfidence == "Military vehicle detected with high confidence"

ReasonObjectType == "Military-related object type detected"

ReasonPotential == "Potential military vehicle detected"

ReasonIndirect == "Indirect military content detection"

ReasonCheckFailed == "safety_check_failed"

\* The text of the reason; the keyword list the second reason embeds is
\* kept in details.text_analysis.detected_keywords.
_get_block_reason(detection_result) ==
  IF detection_result.is_military_detected
       /\ detection_result.military_confidence > 70
    THEN ReasonHighConfidence
  ELSE IF detection_result.text_analysis.risk_level = "high"
    THEN ReasonObjectType
  ELSE IF detection_result.is_military_detected
            /\ detection_result.military_confidence > 50
    THEN ReasonPotential
  ELSE ReasonIndirect

ZeroStats ==
  [total_requests       |-> 0,
   blocked_requests     |-> 0,
   military_detections  |-> 0,
   text_analysis_blocks |-> 0,
   indirect_blocks      |-> 0]

NoDetails ==
  [is_military_detected |-> FALSE,
   military_confidence  |-> 0,
   text_analysis        |-> UnknownAnalysis,
   safety_decision      |-> "none",
   error                |-> FALSE]

\* The dictionary check_safety returns on its normal path.  error is the
\* presence of the 'error' key.
VerdictFromDetection(dr) ==
  [safe       |-> dr.safety_decision = "allow",
   blocked    |-> dr.safety_decision = "block",
   reason     |-> _get_block_reason(dr),
   confidence |-> dr.military_confidence,
   error      |-> FALSE,
   details    |-> dr]

\* The dictionary check_safety returns on its except path, taken when
\* Image.open raises; the key 'details' is absent (NoDetails).
FailOpenVerdict ==
  [safe       |-> TRUE,
   blocked    |-> FALSE,
   reason     |-> ReasonCheckFailed,
   confidence |-> 0,
   error      |-> TRUE,
   details    |-> NoDetails]

\* the statistics when only blocks by the visual signal are counted as
\* blocked requests
StatsAfterDetection_VisualBlocksOnly(stats, dr) ==
  LET s1 == IF dr.is_military_detected
              THEN [stats EXCEPT !.military_detections = @ + 1] ELSE stats
      s2 == IF dr.text_analysis.risk_level = "high"
              THEN [s1 EXCEPT !.text_analysis_blocks = @ + 1] ELSE s1
  IN  IF dr.safety_decision # "block" THEN s2
      ELSE IF dr.is_military_detected /\ dr.military_confidence > 50
        THEN [s2 EXCEPT !.blocked_requests = @ + 1,
                        !.military_detections = @ + 1]
      ELSE IF dr.text_analysis.risk_level = "high"
        THEN [s2 EXCEPT !.text_analysis_blocks = @ + 1]
      ELSE [s2 EXCEPT !.indirect_blocks = @ + 1]

\* The "Update statistics" block of check_safety
StatsAfterDetection(stats, dr) ==
  LET s1 == IF dr.is_military_detected
              THEN [stats EXCEPT !.military_detections = @ + 1] ELSE stats
      s2 == IF dr.text_analysis.risk_level = "high"
              THEN [s1 EXCEPT !.text_analysis_blocks = @ + 1] ELSE s1
      s3 == IF dr.safety_decision = "block"
              THEN [s2 EXCEPT !.blocked_requests = @ + 1] ELSE s2
  IN  IF dr.safety_decision # "block" THEN s3
      ELSE IF dr.is_military_detected /\ dr.military_confidence > 50
        THEN [s3 EXCEPT !.military_detections = @ + 1]
      ELSE IF dr.text_analysis.risk_level = "high"
        THEN [s3 EXCEPT !.text_analysis_blocks = @ + 1]
      ELSE [s3 EXCEPT !.indirect_blocks = @ + 1]

\* check_safety: the dictionary it returns and the statistics it leaves
check_safety(stats, image, object_type, filename) ==
  LET s0 == [stats EXCEPT !.total_requests = @ + 1]
  IN  IF ~image.decodable
        THEN [result |-> FailOpenVerdict, stats |-> s0]
        ELSE LET dr == detect_military_content(image, object_type, filename)
             IN  [result |-> VerdictFromDetection(dr),
                  stats  |-> StatsAfterDetection(s0, dr)]

(***************************************************************************)
(* Count aggregation : YOLOObjectCounterPipeline                           *)
(***************************************************************************)
\* The table of _map_coco_to_custom
coco_mapping ==
  (0 :> <<"p", "e", "r", "s", "o", "n">>) @@
  (2 :> <<"c", "a", "r">>) @@
  (3 :> <<"c", "a", "r">>) @@
  (5 :> <<"c", "a", "r">>) @@
  (7 :> <<"c", "a", "r">>) @@
  (15 :> <<"c", "a", "t">>) @@
  (16 :> <<"d", "o", "g">>) @@
  (17 :> <<"h", "o", "r", "s", "e">>) @@
  (18 :> <<"s", "h", "e", "e", "p">>) @@
  (19 :> <<"c", "o", "w">>) @@
  (20 :> <<"e", "l", "e", "p", "h", "a", "n", "t">>) @@
  (21 :> <<"b", "e", "a", "r">>) @@
  (22 :> <<"z", "e", "b", "r", "a">>) @@
  (23 :> <<"g", "i", "r", "a", "f", "f", "e">>) @@
  (24 :> <<"b", "a", "c", "k", "p", "a", "c", "k">>) @@
  (25 :> <<"u", "m", "b", "r", "e", "l", "l", "a">>) @@
  (26 :> <<"h", "a", "n", "d", "b", "a", "g">>) @@
  (27 :> <<"t", "i", "e">>) @@
  (28 :> <<"s", "u", "i", "t", "c", "a", "s", "e">>) @@
  (29 :> <<"f", "r", "i", "s", "b", "e", "e">>) @@
  (30 :> <<"s", "k", "i", "s">>) @@
  (31 :> <<"s", "n", "o", "w", "b", "o", "a", "r", "d">>) @@
  (32 :> <<"s", "p", "o", "r", "t", "s", " ", "b", "a", "l", "l">>) @@
  (33 :> <<"k", "i", "t", "e">>) @@
  (34 :> <<"b", "a", "s", "e", "b", "a", "l", "l", " ", "b", "a", "t">>) @@
  (35 :> <<"b", "a", "s", "e", "b", "a", "l", "l", " ", "g", "l", "o", "v", "e">>) @@
  (36 :> <<"s", "k", "a", "t", "e", "b", "o", "a", "r", "d">>) @@
  (37 :> <<"s", "u", "r", "f", "b", "o", "a", "r", "d">>) @@
  (38 :> <<"t", "e", "n", "n", "i", "s", " ", "r", "a", "c", "k", "e", "t">>) @@
  (39 :> <<"b", "o", "t", "t", "l", "e">>) @@
  (40 :> <<"w", "i", "n", "e", " ", "g", "l", "a", "s", "s">>) @@
  (41 :> <<"c", "u", "p">>) @@
  (42 :> <<"f", "o", "r", "k">>) @@
  (43 :> <<"k", "n", "i", "f", "e">>) @@
  (44 :> <<"s", "p", "o", "o", "n">>) @@
  (45 :> <<"b", "o", "w", "l">>) @@
  (46 :> <<"b", "a", "n", "a", "n", "a">>) @@
  (47 :> <<"a", "p", "p", "l", "e">>) @@
  (48 :> <<"s", "a", "n", "d", "w", "i", "c", "h">>) @@
  (49 :> <<"o", "r", "a", "n", "g", "e">>) @@
  (50 :> <<"b", "r", "o", "c", "c", "o", "l", "i">>) @@
  (51 :> <<"c", "a", "r", "r", "o", "t">>) @@
  (52 :> <<"h", "o", "t", " ", "d", "o", "g">>) @@
  (53 :> <<"p", "i", "z", "z", "a">>) @@
  (54 :> <<"d", "o", "n", "u", "t">>) @@
  (55 :> <<"c", "a", "k", "e">>) @@
  (56 :> <<"c", "h", "a", "i", "r">>) @@
  (57 :> <<"c", "o", "u", "c", "h">>) @@
  (58 :> <<"p", "o", "t", "t", "e", "d", " ", "p", "l", "a", "n", "t">>) @@
  (59 :> <<"b", "e", "d">>) @@
  (60 :> <<"d", "i", "n", "i", "n", "g", " ", "t", "a", "b", "l", "e">>) @@
  (61 :> <<"t", "o", "i", "l", "e", "t">>) @@
  (62 :> <<"t", "v">>) @@
  (63 :> <<"l", "a", "p", "t", "o", "p">>) @@
  (64 :> <<"m", "o", "u", "s", "e">>) @@
  (65 :> <<"r", "e", "m", "o", "t", "e">>) @@
  (66 :> <<"k", "e", "y", "b", "o", "a", "r", "d">>) @@
  (67 :> <<"c", "e", "l", "l", " ", "p", "h", "o", "n", "e">>) @@
  (68 :> <<"m", "i", "c", "r", "o", "w", "a", "v", "e">>) @@
  (69 :> <<"o", "v", "e", "n">>) @@
  (70 :> <<"t", "o", "a", "s", "t", "e", "r">>) @@
  (71 :> <<"s", "i", "n", "k">>) @@
  (72 :> <<"r", "e", "f", "r", "i", "g", "e", "r", "a", "t", "o", "r">>) @@
  (73 :> <<"b", "o", "o", "k">>) @@
  (74 :> <<"c", "l", "o", "c", "k">>) @@
  (75 :> <<"v", "a", "s", "e">>) @@
  (76 :> <<"s", "c", "i", "s", "s", "o", "r", "s">>) @@
  (77 :> <<"t", "e", "d", "d", "y", " ", "b", "e", "a", "r">>) @@
  (78 :> <<"h", "a", "i", "r", " ", "d", "r", "i", "e", "r">>) @@
  (79 :> <<"t", "o", "o", "t", "h", "b", "r", "u", "s", "h">>)

OtherLabel == <<"o", "t", "h", "e", "r">>

_map_coco_to_custom(class_id) ==
  IF class_id \in DOMAIN coco_mapping THEN coco_mapping[class_id] ELSE OtherLabel

animal_types ==
  { <<"c", "a", "t">>,
    <<"d", "o", "g">>,
    <<"h", "o", "r", "s", "e">>,
    <<"s", "h", "e", "e", "p">>,
    <<"c", "o", "w">>,
    <<"e", "l", "e", "p", "h", "a", "n", "t">>,
    <<"b", "e", "a", "r">>,
    <<"z", "e", "b", "r", "a">>,
    <<"g", "i", "r", "a", "f", "f", "e">> }

_is_animal_type(object_type) == Lower(object_type) \in animal_types

\* Direct-match threshold 0.15 and cross-category threshold 0.3, in 1/10000
DirectThreshold == 1500

AnimalThreshold == 3000

\* Before any box is visited: target_count, confidence_scores, detections.
\* A score is kept in units of 1/100000: confidence c (1/10000) is 10 * c,
\* and confidence * 0.8 is 8 * c.
EmptyAcc == [target_count |-> 0, confidence_scores |-> <<>>, detections |-> <<>>]

\* the loop body with the direct threshold taken strictly
ProcessBox_StrictDirect(acc, box, object_type) ==
  LET class_id == box.class_id
      confidence == box.confidence
      detected_type == _map_coco_to_custom(class_id)
      det == [class |-> detected_type, confidence |-> confidence]
  IN  IF detected_type = Lower(object_type) /\ confidence > DirectThreshold
        THEN [target_count      |-> acc.target_count + 1,
              confidence_scores |-> Append(acc.confidence_scores, 10 * confidence),
              detections        |-> Append(acc.detections, det)]
      ELSE IF /\ _is_animal_type(detected_type)
              /\ _is_animal_type(Lower(object_type))
              /\ confidence >= AnimalThreshold
        THEN [target_count      |-> acc.target_count + 1,
              confidence_scores |-> Append(acc.confidence_scores, 8 * confidence),
              detections        |-> Append(acc.detections, det)]
      ELSE [acc EXCEPT !.detections = Append(@, det)]

\* the loop body without the 0.8 discount of the cross-category rule
ProcessBox_NoDiscount(acc, box, object_type) ==
  LET class_id == box.class_id
      confidence == box.confidence
      detected_type == _map_coco_to_custom(class_id)
      det == [class |-> detected_type, confidence |-> confidence]
  IN  IF detected_type = Lower(object_type) /\ confidence >= DirectThreshold
        THEN [target_count      |-> acc.target_count + 1,
              confidence_scores |-> Append(acc.confidence_scores, 10 * confidence),
              detections        |-> Append(acc.detections, det)]
      ELSE IF /\ _is_animal_type(detected_type)
              /\ _is_animal_type(Lower(object_type))
              /\ confidence >= AnimalThreshold
        THEN [target_count      |-> acc.target_count + 1,
              confidence_scores |-> Append(acc.confidence_scores, 10 * confidence),
              detections        |-> Append(acc.detections, det)]
      ELSE [acc EXCEPT !.detections = Append(@, det)]

\* the loop body keeping only the counted detections
ProcessBox_DropUncounted(acc, box, object_type) ==
  LET class_id == box.class_id
      confidence == box.confidence
      detected_type == _map_coco_to_custom(class_id)
      det == [class |-> detected_type, confidence |-> confidence]
  IN  IF detected_type = Lower(object_type) /\ confidence >= DirectThreshold
        THEN [target_count      |-> acc.target_count + 1,
              confidence_scores |-> Append(acc.confidence_scores, 10 * confidence),
              detections        |-> Append(acc.detections, det)]
      ELSE IF /\ _is_animal_type(detected_type)
              /\ _is_animal_type(Lower(object_type))
              /\ confidence >= AnimalThreshold
        THEN [target_count      |-> acc.target_count + 1,
              confidence_scores |-> Append(acc.confidence_scores, 8 * confidence),
              detections        |-> Append(acc.detections, det)]
      ELSE acc

\* The body of the loop over the boxes of process_image
ProcessBox(acc, box, object_type) ==
  LET class_id == box.class_id
      confidence == box.confidence
      detected_type == _map_coco_to_custom(class_id)
      det == [class |-> detected_type, confidence |-> confidence]
  IN  IF detected_type = Lower(object_type) /\ confidence >= DirectThreshold
        THEN [target_count      |-> acc.target_count + 1,
              confidence_scores |-> Append(acc.confidence_scores, 10 * confidence),
              detections        |-> Append(acc.detections, det)]
      ELSE IF /\ _is_animal_type(detected_type)
              /\ _is_animal_type(Lower(object_type))
              /\ confidence >= AnimalThreshold
        THEN [target_count      |-> acc.target_count + 1,
              confidence_scores |-> Append(acc.confidence_scores, 8 * confidence),
              detections        |-> Append(acc.detections, det)]
      ELSE [acc EXCEPT !.detections = Append(@, det)]

RECURSIVE ProcessBoxes(_, _, _)
ProcessBoxes(acc, boxes, object_type) ==
  IF boxes = <<>> THEN acc
  ELSE ProcessBoxes(ProcessBox(acc, Head(boxes), object_type), Tail(boxes), object_type)

RECURSIVE SumSeq(_)
SumSeq(s) == IF s = <<>> THEN 0 ELSE Head(s) + SumSeq(Tail(s))

\* round(avg_confidence, 3) for avg = total / n (total in 1/100000): the
\* thousandths nearest to the mean.  On an exact tie the binary value of the
\* float decides, so both neighbours are possible results.
Round3(total, n) ==
  LET up == (total + 50 * n) \div (100 * n)
  IN  IF (total + 50 * n) % (100 * n) = 0 /\ up > 0 THEN {up - 1, up} ELSE {up}

\* _save_segmented_image: the detections it draws a rectangle for, by
\* their position in the list
_save_segmented_image(detections, object_type) ==
  {i \in 1..Len(detections) : detections[i].class = Lower(object_type)}

\* The dictionary process_image returns when the model, the decoding and
\* the inference succeed; confidence is in thousandths.  annotated and
\* drawn describe the image written by _save_segmented_image, called when
\* something was counted.
ProcessImageResult(boxes, object_type, rounded) ==
  LET acc == ProcessBoxes(EmptyAcc, boxes, object_type)
  IN  [count            |-> acc.target_count,
       confidence       |-> IF acc.confidence_scores = <<>> THEN 0 ELSE rounded,
       total_detections |-> Len(acc.detections),
       detected_objects |-> [i \in 1..Len(acc.detections) |-> acc.detections[i].class],
       annotated        |-> acc.target_count > 0,
       drawn            |-> IF acc.target_count > 0
                              THEN _save_segmented_image(acc.detections, object_type)
                              ELSE {},
       error            |-> FALSE]

\* The set round(avg_confidence, 3) is drawn from
RoundedMean(boxes, object_type) ==
  LET acc == ProcessBoxes(EmptyAcc, boxes, object_type)
  IN  IF acc.confidence_scores = <<>> THEN {0}
      ELSE Round3(SumSeq(acc.confidence_scores), Len(acc.confidence_scores))

\* The dictionary process_image returns when loading the model, decoding the
\* image or the inference raises: only count, confidence and error are set
\* (callers read the other keys with .get and a default)
ProcessImageError ==
  [count            |-> 0,
   confidence       |-> 0,
   total_detections |-> 0,
   detected_objects |-> <<>>,
   annotated        |-> FALSE,
   drawn            |-> {},
   error            |-> TRUE]

(***************************************************************************)
(* Endpoints : static vocabulary and upload validation                     *)
(***************************************************************************)
OBJECT_TYPES ==
  << <<"c", "a", "r">>,
     <<"c", "a", "t">>,
     <<"t", "r", "e", "e">>,
     <<"d", "o", "g">>,
     <<"b", "u", "i", "l", "d", "i", "n", "g">>,
     <<"p", "e", "r", "s", "o", "n">>,
     <<"s", "k", "y">>,
     <<"g", "r", "o", "u", "n", "d">>,
     <<"h", "a", "r", "d", "w", "a", "r", "e">>,
     <<"t", "a", "n", "k">> >>

image_extensions ==
  << <<".", "j", "p", "g">>,
     <<".", "j", "p", "e", "g">>,
     <<".", "p", "n", "g">>,
     <<".", "g", "i", "f">>,
     <<".", "b", "m", "p">>,
     <<".", "w", "e", "b", "p">> >>

ImagePrefix == <<"i", "m", "a", "g", "e", "/">>

\* not (content_type and content_type.startswith("image/")) and no image
\* extension at the end of the lowered filename: the first 400 of /api/count
NotAnImageFile(content_type, filename) ==
  /\ ~StartsWith(content_type, ImagePrefix)
  /\ ~\E i \in 1..Len(image_extensions) : EndsWith(Lower(filename), image_extensions[i])

InVocabulary(object_type) ==
  \E i \in 1..Len(OBJECT_TYPES) : OBJECT_TYPES[i] = object_type

(***************************************************************************)
(* Bounds and input palettes                                               *)
(***************************************************************************)
\* check_safety calls in one behaviour of SpecSafety
MaxChecks == 2

\* boxes the detector reports for one image
MaxDetections == 2

\* counting requests (both endpoints) in one behaviour of Spec
MaxRequests == 2

\* learn calls in one behaviour of Spec
MaxLearns == 1

\* direct calls of the few-shot pipeline
MaxOps == 3

\* learn requests in flight together
MaxLearnRequests == 2

\* delete and correct requests served while learn requests are in flight
MaxMutations == 2

s_car == <<"c", "a", "r">>

s_person == <<"p", "e", "r", "s", "o", "n">>

s_Tank == <<"T", "a", "n", "k">>

s_tank == <<"t", "a", "n", "k">>

s_hardware == <<"h", "a", "r", "d", "w", "a", "r", "e">>

s_fighter == <<"f", "i", "g", "h", "t", "e", "r">>

s_radar == <<"r", "a", "d", "a", "r">>

s_cat == <<"c", "a", "t">>

s_Cat == <<"C", "a", "t">>

s_dog == <<"d", "o", "g">>

s_tree == <<"t", "r", "e", "e">>

s_zebra == <<"z", "e", "b", "r", "a">>

f_none == <<>>

f_photo == <<"p", "h", "o", "t", "o", ".", "j", "p", "g">>

f_tank == <<"T", "a", "n", "k", ".", "j", "p", "g">>

f_vehicle == <<"v", "e", "h", "i", "c", "l", "e", ".", "p", "n", "g">>

f_notes == <<"n", "o", "t", "e", "s", ".", "t", "x", "t">>

ct_png == <<"i", "m", "a", "g", "e", "/", "p", "n", "g">>

ct_text == <<"t", "e", "x", "t", "/", "p", "l", "a", "i", "n">>

\* Image.open raises on these bytes
ImgUndecodable ==
  [decodable |-> FALSE, mode |-> "RGB", width |-> 0, height |-> 0, brightness |-> 0]

\* a decodable image with an alpha channel
ImgRGBA ==
  [decodable |-> TRUE, mode |-> "RGBA", width |-> 640, height |-> 480, brightness |-> 50]

ImgSmall ==
  [decodable |-> TRUE, mode |-> "RGB", width |-> 100, height |-> 100, brightness |-> 60]

\* more than 500000 pixels, aspect ratio 1.67, mean grey level 0.10
ImgLargeDark ==
  [decodable |-> TRUE, mode |-> "RGB", width |-> 1000, height |-> 600, brightness |-> 10]

ImgHuge ==
  [decodable |-> TRUE, mode |-> "RGB", width |-> 1200, height |-> 1000, brightness |-> 50]

ImgTall ==
  [decodable |-> TRUE, mode |-> "RGB", width |-> 100, height |-> 400, brightness |-> 60]

SafetyImages == {ImgUndecodable, ImgRGBA, ImgSmall, ImgLargeDark, ImgHuge, ImgTall}

SafetyTypes == {s_car, s_person, s_tank, s_Tank, s_hardware, s_fighter, s_radar}

SafetyFilenames == {f_none, f_photo, f_tank, f_vehicle}

\* visual scores in hundredths, around the thresholds 0.5, 0.7 and 0.8
SignalConfidences == {50, 70, 71, 79, 80, 81, 85, 90, 100}

\* the visual signals: no detection carries confidence 0
Signals ==
  {[is_military |-> FALSE, confidence |-> 0]}
    \cup {[is_military |-> TRUE, confidence |-> c] : c \in SignalConfidences}

\* detector confidences in 1/10000, around the thresholds 0.15 and 0.3
BoxConfidences == {1499, 1500, 2999, 3000, 3333, 10000}

\* person, cat, dog and an identifier outside the table
BoxClassIds == {0, 15, 16, 99}

Boxes == [class_id : BoxClassIds, confidence : BoxConfidences]

RECURSIVE SeqsUpTo(_, _)
SeqsUpTo(S, n) ==
  IF n = 0 THEN {<<>>}
  ELSE LET shorter == SeqsUpTo(S, n - 1)
       IN  shorter \cup {Append(s, x) : s \in shorter, x \in S}

AggregateTypes == {s_cat, s_Cat, s_dog, s_person, s_car, s_tree}

(***************************************************************************)
(* State                                                                   *)
(***************************************************************************)
VARIABLES
  safety_stats,     \* SafetyPipeline.safety_stats
  last_check,       \* the last direct check_safety call and what it returned
  eval_call,        \* a verdict derived from a given visual signal
  agg_call,         \* a process_image call and what it returned
  req_pc,           \* position of every counting request
  active_requests,  \* the ACTIVE_REQUESTS gauge
  db_results,       \* rows of the count_results table
  uploads,          \* files written to the uploads directory
  yolo_calls,       \* invocations of process_image by the endpoints
  last_response,    \* the last response of a counting endpoint
  learned_classes,  \* FewShotLearningPipeline.learned_classes
  learned_file,     \* the content of learned_classes.json
  learn_calls,      \* learn calls made, also the clock of learned_at
  model_files,      \* names whose <name>_model.pt exists in models_dir
  training_dirs,    \* names whose directory exists in training_data_dir
  last_op,          \* the last direct call of the few-shot pipeline
  learn_pc,         \* position of every learn request
  op_log,           \* the learn, delete and correct calls, as they ran
  corrections_data, \* MetricsCollector.corrections_data
  db_corrections,   \* rows of the corrections table
  accuracy_gauges   \* the accuracy, precision and recall gauges set so far

safetyVars == <<last_check>>

evalVars == <<eval_call>>

aggVars == <<agg_call>>

storeVars == <<model_files, training_dirs>>

fewShotVars == <<last_op, learn_pc, op_log, corrections_data, db_corrections,
                 accuracy_gauges>>

apiVars == <<req_pc, active_requests, db_results, uploads, yolo_calls,
             last_response, learned_classes, learned_file, learn_calls,
             storeVars, fewShotVars>>

vars == <<safety_stats, last_check, eval_call, agg_call, req_pc,
          active_requests, db_results, uploads, yolo_calls, last_response,
          learned_classes, learned_file, learn_calls, model_files,
          training_dirs, last_op, learn_pc, op_log, corrections_data,
          db_corrections,
                 accuracy_gauges>>

NoVerdict ==
  [safe       |-> FALSE,
   blocked    |-> FALSE,
   reason     |-> "",
   confidence |-> 0,
   error      |-> FALSE,
   details    |-> NoDetails]

NoCheck ==
  [called |-> FALSE, image |-> ImgSmall, object_type |-> <<>>,
   filename |-> <<>>, verdict |-> NoVerdict, calls |-> 0, blocked_calls |-> 0]

NoEval ==
  [called |-> FALSE, signal |-> [is_military |-> FALSE, confidence |-> 0],
   object_type |-> <<>>, verdict |-> NoVerdict]

NoAgg ==
  [called |-> FALSE, boxes |-> <<>>, object_type |-> <<>>,
   stage |-> "none", raised |-> FALSE, result |-> ProcessImageError]

Requests == 1..MaxRequests

NoResponse ==
  [seq         |-> 0,
   endpoint    |-> "none",
   status      |-> 0,
   reason      |-> "",
   safety_run  |-> FALSE,
   verdict     |-> NoVerdict,
   object_type |-> <<>>,
   result_id   |-> 0,
   count       |-> 0,
   confidence  |-> 0]

\* learned_classes.json does not exist
NoFile == [state |-> "absent", classes |-> <<>>]

\* learned_classes.json after a dump that did not complete
CorruptFile == [state |-> "corrupt", classes |-> <<>>]

\* learned_classes.json after json.dump(classes) completed
JsonFile(classes) == [state |-> "json", classes |-> classes]

\* the registry with the storage it owns, as one value
RegistryState(classes, file, models, dirs) ==
  [learned_classes |-> classes,
   learned_file    |-> file,
   model_files     |-> models,
   training_dirs   |-> dirs]

\* FewShotLearningPipeline.__init__ on empty directories
EmptyRegistry == RegistryState(<<>>, NoFile, {}, {})

NoOp ==
  [seq          |-> 0,
   op           |-> "none",
   object_type  |-> <<>>,
   sample_count |-> 0,
   failure      |-> "none",
   raised       |-> "none",
   returned     |-> FALSE,
   attempted    |-> {},
   before       |-> EmptyRegistry]

LearnRequests == 1..MaxLearnRequests

\* a learn request that has not arrived; one that was answered
NewLearnRequest == [pc |-> "new", object_type |-> <<>>, sample_count |-> 0]

DoneLearnRequest == [pc |-> "done", object_type |-> <<>>, sample_count |-> 0]

\* SafetyPipeline.__init__
InitSafety == safety_stats = ZeroStats /\ last_check = NoCheck

\* app start: no request, empty tables, empty registry
InitApi ==
  /\ req_pc = [r \in Requests |-> "new"]
  /\ active_requests = 0
  /\ db_results = <<>>
  /\ uploads = 0
  /\ yolo_calls = 0
  /\ last_response = NoResponse
  /\ learned_classes = <<>>
  /\ learned_file = NoFile
  /\ learn_calls = 0
  /\ model_files = {}
  /\ training_dirs = {}
  /\ last_op = NoOp
  /\ learn_pc = [r \in LearnRequests |-> NewLearnRequest]
  /\ op_log = <<>>
  /\ corrections_data = <<>>
  /\ accuracy_gauges = <<>>
  /\ db_corrections = <<>>

(***************************************************************************)
(* SafetyPipeline called directly                                          *)
(***************************************************************************)
CheckSafety(image, object_type, filename) ==
  /\ safety_stats.total_requests < MaxChecks
  /\ LET out == check_safety(safety_stats, image, object_type, filename)
     IN  /\ safety_stats' = out.stats
         /\ last_check' = [called      |-> TRUE,
                           image       |-> image,
                           object_type |-> object_type,
                           filename    |-> filename,
                           verdict     |-> out.result,
                           calls       |-> last_check.calls + 1,
                           blocked_calls |->
                             IF out.result.blocked
                               THEN last_check.blocked_calls + 1
                               ELSE last_check.blocked_calls]
  /\ UNCHANGED <<evalVars, aggVars, apiVars>>

ResetStatistics ==
  /\ safety_stats # ZeroStats
  /\ safety_stats' = ZeroStats
  /\ last_check' = [last_check EXCEPT !.calls = 0, !.blocked_calls = 0]
  /\ UNCHANGED <<evalVars, aggVars, apiVars>>

NextSafety ==
  \/ \E image \in SafetyImages, object_type \in SafetyTypes,
        filename \in SafetyFilenames :
       CheckSafety(image, object_type, filename)
  \/ ResetStatistics

\* the pipeline right after construction, nothing else called
InitSafetyOnly ==
  /\ safety_stats = ZeroStats
  /\ last_check = NoCheck
  /\ eval_call = NoEval
  /\ agg_call = NoAgg
  /\ InitApi

SpecSafety == InitSafetyOnly /\ [][NextSafety]_vars

(***************************************************************************)
(* The rule chain on a given visual signal                                 *)
(***************************************************************************)
InitEval ==
  /\ eval_call \in {[called      |-> FALSE,
                     signal      |-> sig,
                     object_type |-> t,
                     verdict     |-> NoVerdict] : sig \in Signals, t \in SafetyTypes}
  /\ InitSafety
  /\ agg_call = NoAgg
  /\ InitApi

\* detect_military_content from its text analysis on and the verdict
\* check_safety builds from it, for the visual signal drawn in InitEval
Evaluate ==
  /\ ~eval_call.called
  /\ eval_call' = [eval_call EXCEPT
                     !.called = TRUE,
                     !.verdict = VerdictFromDetection(
                                   DetectionFromSignal(eval_call.signal,
                                                       eval_call.object_type))]
  /\ UNCHANGED <<safety_stats, safetyVars, aggVars, apiVars>>

SpecDecision == InitEval /\ [][Evaluate]_vars

(***************************************************************************)
(* process_image called directly                                           *)
(***************************************************************************)
InitAgg ==
  /\ agg_call \in {[called      |-> FALSE,
                    boxes       |-> b,
                    object_type |-> t,
                    stage       |-> "none",
                    raised      |-> FALSE,
                    result      |-> ProcessImageError] :
                      b \in SeqsUpTo(Boxes, MaxDetections), t \in AggregateTypes}
  /\ InitSafety
  /\ eval_call = NoEval
  /\ InitApi

\* the model loads, the image decodes and the inference returns agg_call.boxes
ProcessImage ==
  /\ ~agg_call.called
  /\ \E rounded \in RoundedMean(agg_call.boxes, agg_call.object_type) :
       agg_call' = [agg_call EXCEPT
                      !.called = TRUE,
                      !.result = ProcessImageResult(agg_call.boxes,
                                                    agg_call.object_type, rounded)]
  /\ UNCHANGED <<safety_stats, safetyVars, evalVars, apiVars>>

\* the steps of process_image that call the detector collaborator and can
\* raise: _load_model, Image.open (reads the header only), the decoding of
\* the pixel data (PIL decodes lazily, in image.convert or image.resize) and
\* the inference self.model(...)
DetectorFailures == {"load_model", "open", "decode", "inference"}

\* whether the exception of a stage leaves process_image: the first try
\* covers _load_model and Image.open, the second one the inference;
\* image.convert, image.resize and np.array stand between the two
ProcessImageRaises(stage) == stage = "decode"

\* a stage of process_image raises
ProcessImageFails(stage) ==
  /\ ~agg_call.called
  /\ agg_call' = [agg_call EXCEPT !.called = TRUE,
                                  !.stage = stage,
                                  !.raised = ProcessImageRaises(stage),
                                  !.result = ProcessImageError]
  /\ UNCHANGED <<safety_stats, safetyVars, evalVars, apiVars>>

NextAgg ==
  \/ ProcessImage
  \/ \E stage \in DetectorFailures : ProcessImageFails(stage)

SpecAggregate == InitAgg /\ [][NextAgg]_vars

(***************************************************************************)
(* Endpoints                                                               *)
(*                                                                         *)
(* The handlers are coroutines on one event loop: a request can be         *)
(* suspended only at "await file.read()", so each counting request takes   *)
(* two steps, the code before the await and the code after it.             *)
(***************************************************************************)
\* uploads: an image by content type, a text file, and an image recognised
\* by its extension only, whose name holds a military keyword
ApiUploads ==
  { [content_type |-> ct_png,  filename |-> f_photo],
    [content_type |-> ct_text, filename |-> f_notes],
    [content_type |-> ct_text, filename |-> f_tank] }

\* a type of the vocabulary, a blocklisted one, and one outside the vocabulary
ApiTypes == {s_cat, s_tank, s_zebra}

ApiImages == {ImgUndecodable, ImgRGBA, ImgSmall}

\* the detector and the upload directory, as one request meets them: the
\* detector raises, reports nothing, reports a cat and a dog, or the upload
\* cannot be written
ApiEnvironments ==
  { [detector_ok |-> FALSE, boxes |-> <<>>, write_ok |-> TRUE],
    [detector_ok |-> TRUE,  boxes |-> <<>>, write_ok |-> TRUE],
    [detector_ok |-> TRUE,
     boxes |-> <<[class_id |-> 15, confidence |-> 3333],
                 [class_id |-> 16, confidence |-> 3000]>>,
     write_ok |-> TRUE],
    [detector_ok |-> TRUE,  boxes |-> <<>>, write_ok |-> FALSE] }

\* names learnt while counting requests run: a type that the detector
\* reports, and the empty name
LearnNames == {s_cat, <<>>}

LearnSampleCounts == {2, 3}

\* where a learn call raises: nowhere, while writing or annotating the
\* training files, while copying the model, while opening
\* learned_classes.json, or while dumping into it
LearnFailures == {"none", "files", "train", "save_open", "save_dump"}

\* the learn outcomes met while counting requests run
ApiLearnFailures == {"none", "train"}

\* the set of results process_image can return to an endpoint
ProcessImageOutcomes(detector_ok, boxes, object_type) ==
  IF ~detector_ok THEN {ProcessImageError}
  ELSE {ProcessImageResult(boxes, object_type, rounded) :
          rounded \in RoundedMean(boxes, object_type)}

\* the test "not safety_result.get('safe', True)" of count_objects, read
\* from a key the verdict does not have
SafetyGateCloses_MissingKey(safety_result) == ~TRUE

\* the test "not safety_result.get('safe', True)" of count_objects
SafetyGateCloses(safety_result) == ~safety_result.safe

Respond(endpoint, status, reason, safety_run, verdict, object_type, result_id, result) ==
  last_response' =
    [seq         |-> last_response.seq + 1,
     endpoint    |-> endpoint,
     status      |-> status,
     reason      |-> reason,
     safety_run  |-> safety_run,
     verdict     |-> verdict,
     object_type |-> object_type,
     result_id   |-> result_id,
     count       |-> result.count,
     confidence  |-> result.confidence]

\* DatabaseManager.store_count_result: corrected_count is NULL (-1)
StoredRow(result_id, object_type, result) ==
  [result_id       |-> result_id,
   object_type     |-> object_type,
   count           |-> result.count,
   confidence      |-> result.confidence,
   corrected_count |-> -1]

\* MetricsCollector.increment_active_requests: ACTIVE_REQUESTS.inc()
increment_active_requests(gauge) ==
  gauge + 1

\* a decrement that is not run (as it would be outside a finally clause)
decrement_active_requests_Skipped(gauge) ==
  gauge

\* MetricsCollector.decrement_active_requests: ACTIVE_REQUESTS.dec()
decrement_active_requests(gauge) ==
  gauge - 1

\* count_objects up to "await file.read()"
CountBegin(r) ==
  /\ UNCHANGED <<storeVars, fewShotVars>>
  /\ req_pc[r] = "new"
  /\ \A q \in 1..(r - 1) : req_pc[q] # "new"
  /\ req_pc' = [req_pc EXCEPT ![r] = "count_reading"]
  /\ active_requests' = increment_active_requests(active_requests)
  /\ UNCHANGED <<safety_stats, safetyVars, evalVars, aggVars, db_results,
                 uploads, yolo_calls, last_response, learned_classes,
                 learned_file, learn_calls>>

\* count_objects from "await file.read()" to its finally clause
CountFinish(r, content_type, filename, object_type, image, detector_ok, boxes, write_ok) ==
  /\ UNCHANGED <<storeVars, fewShotVars>>
  /\ req_pc[r] = "count_reading"
  /\ req_pc' = [req_pc EXCEPT ![r] = "done"]
  /\ active_requests' = decrement_active_requests(active_requests)
  /\ UNCHANGED <<safetyVars, evalVars, aggVars, learned_classes, learned_file,
                 learn_calls>>
  /\ IF NotAnImageFile(content_type, filename)
       THEN /\ Respond("count", 400, "File must be an image", FALSE, NoVerdict,
                       object_type, 0, ProcessImageError)
            /\ UNCHANGED <<safety_stats, db_results, uploads, yolo_calls>>
     ELSE IF ~InVocabulary(object_type)
       THEN /\ Respond("count", 400, "Object type must be one of", FALSE,
                       NoVerdict, object_type, 0, ProcessImageError)
            /\ UNCHANGED <<safety_stats, db_results, uploads, yolo_calls>>
     ELSE IF ~image.decodable
       THEN /\ Respond("count", 400, "Invalid image file", FALSE, NoVerdict,
                       object_type, 0, ProcessImageError)
            /\ UNCHANGED <<safety_stats, db_results, uploads, yolo_calls>>
     ELSE
       LET checked == check_safety(safety_stats, image, object_type, filename)
           safety_result == checked.result
       IN  /\ safety_stats' = checked.stats
           /\ IF SafetyGateCloses(safety_result)
                THEN /\ Respond("count", 403, safety_result.reason, TRUE,
                                safety_result, object_type, 0, ProcessImageError)
                     /\ UNCHANGED <<db_results, uploads, yolo_calls>>
                ELSE
                  /\ yolo_calls' = yolo_calls + 1
                  /\ \E result \in ProcessImageOutcomes(detector_ok, boxes, object_type) :
                       IF ~write_ok
                         THEN /\ Respond("count", 500, "Processing failed", TRUE,
                                         safety_result, object_type, 0,
                                         ProcessImageError)
                              /\ UNCHANGED <<db_results, uploads>>
                         ELSE /\ uploads' = uploads + 1
                              /\ db_results' = Append(db_results,
                                     StoredRow(Len(db_results) + 1, object_type, result))
                              /\ Respond("count", 200, "", TRUE, safety_result,
                                         object_type, Len(db_results) + 1, result)

\* FewShotLearningPipeline.detect_with_learned_model: the results the call
\* can return, given those process_image can return; result.update sets
\* success to True whatever process_image returned
detect_with_learned_model(classes, object_type, results) ==
  IF object_type \notin DOMAIN classes
    THEN {[success |-> FALSE, error |-> "not learned yet",
           result |-> ProcessImageError]}
    ELSE {[success |-> TRUE, error |-> "", result |-> result] :
            result \in results}

\* FewShotLearningPipeline.get_learned_object_types: the keys of the registry
get_learned_object_types(classes) ==
  DOMAIN classes

\* FewShotLearningPipeline.get_learning_info: dict.get, the entry of the
\* name or None (the empty set)
get_learning_info(classes, object_type) ==
  IF object_type \in DOMAIN classes THEN {classes[object_type]} ELSE {}

\* count_learned_objects up to "await file.read()"
CountLearnedBegin(r) ==
  /\ UNCHANGED <<storeVars, fewShotVars>>
  /\ req_pc[r] = "new"
  /\ \A q \in 1..(r - 1) : req_pc[q] # "new"
  /\ req_pc' = [req_pc EXCEPT ![r] = "learned_reading"]
  /\ active_requests' = increment_active_requests(active_requests)
  /\ UNCHANGED <<safety_stats, safetyVars, evalVars, aggVars, db_results,
                 uploads, yolo_calls, last_response, learned_classes,
                 learned_file, learn_calls>>

\* count_learned_objects from "await file.read()" to its finally clause,
\* with detect_with_learned_model
CountLearnedFinish(r, object_type, detector_ok, boxes) ==
  /\ UNCHANGED <<storeVars, fewShotVars>>
  /\ req_pc[r] = "learned_reading"
  /\ req_pc' = [req_pc EXCEPT ![r] = "done"]
  /\ active_requests' = decrement_active_requests(active_requests)
  /\ UNCHANGED <<safety_stats, safetyVars, evalVars, aggVars, uploads,
                 learned_classes, learned_file, learn_calls>>
  /\ \E out \in detect_with_learned_model(
                    learned_classes, object_type,
                    ProcessImageOutcomes(detector_ok, boxes, object_type)) :
       IF ~out.success
         THEN /\ Respond("count_learned", 400, out.error, FALSE, NoVerdict,
                         object_type, 0, ProcessImageError)
              /\ UNCHANGED <<db_results, yolo_calls>>
         ELSE /\ yolo_calls' = yolo_calls + 1
              /\ db_results' = Append(db_results,
                     StoredRow(Len(db_results) + 1, object_type, out.result))
              /\ Respond("count_learned", 200, "", FALSE, NoVerdict,
                         object_type, Len(db_results) + 1, out.result)

\* the entry learn_new_object_type stores in the registry
Snapshot(object_type, sample_count, now) ==
  [model_path            |-> object_type,
   training_images_count |-> sample_count,
   learned_at            |-> now,
   status                |-> "learned"]

\* _save_learned_classes: open the file for writing, then json.dump; the
\* dumped dictionary has string keys and string or number values, which
\* json.load gives back equal
_save_learned_classes(classes, file, failure) ==
  CASE failure = "save_open" -> file
    [] failure = "save_dump" -> CorruptFile
    [] OTHER                 -> JsonFile(classes)

\* dict.pop(object_type, None)
Pop(classes, object_type) ==
  IF DOMAIN classes \ {object_type} = {}
    THEN <<>>
    ELSE [k \in DOMAIN classes \ {object_type} |-> classes[k]]

\* the call raises on its validation
ValidationFails(reg) == [reg |-> reg, raised |-> "ValueError"]

\* learn_new_object_type without the test on the number of images
learn_new_object_type_NoMinimum(reg, object_type, sample_count, failure, now) ==
  IF object_type = <<>> \/ sample_count = 0
    THEN ValidationFails(reg)
  ELSE
    LET classes == (object_type :> Snapshot(object_type, sample_count, now))
                     @@ reg.learned_classes
    IN  [reg    |-> RegistryState(classes, JsonFile(classes),
                                  reg.model_files \cup {object_type},
                                  reg.training_dirs \cup {object_type}),
         raised |-> "none"]

\* learn_new_object_type that keeps the entry a name already has
learn_new_object_type_KeepFirst(reg, object_type, sample_count, failure, now) ==
  IF object_type = <<>> \/ sample_count < 3
    THEN ValidationFails(reg)
  ELSE
    LET classes == reg.learned_classes
                     @@ (object_type :> Snapshot(object_type, sample_count, now))
    IN  [reg    |-> RegistryState(classes, JsonFile(classes),
                                  reg.model_files \cup {object_type},
                                  reg.training_dirs \cup {object_type}),
         raised |-> "none"]

\* FewShotLearningPipeline.learn_new_object_type with _save_learned_classes:
\* the registry and its storage after the call, and what the call raised
learn_new_object_type(reg, object_type, sample_count, failure, now) ==
  IF object_type = <<>> \/ sample_count = 0
    THEN ValidationFails(reg)
  ELSE IF sample_count < 3
    THEN ValidationFails(reg)
  ELSE IF failure \in {"files", "train"}
    THEN [reg    |-> [reg EXCEPT !.training_dirs = @ \cup {object_type}],
          raised |-> "OSError"]
  ELSE
    LET classes == (object_type :> Snapshot(object_type, sample_count, now))
                     @@ reg.learned_classes
    IN  [reg    |-> RegistryState(
                      classes,
                      _save_learned_classes(classes, reg.learned_file, failure),
                      reg.model_files \cup {object_type},
                      reg.training_dirs \cup {object_type}),
         raised |-> IF failure \in {"save_open", "save_dump"}
                      THEN "OSError" ELSE "none"]

\* where a delete call raises: nowhere, in model_path.unlink, in
\* shutil.rmtree, or in _save_learned_classes
DeleteFailures == {"none", "unlink", "rmtree", "save_open", "save_dump"}

\* a delete call that returns False
DeleteRefused(reg) ==
  [reg |-> reg, raised |-> "none", returned |-> FALSE, attempted |-> {}]

\* delete_learned_object_type without the membership test
delete_learned_object_type_NoGuard(reg, object_type, failure) ==
  [reg       |-> RegistryState(Pop(reg.learned_classes, object_type),
                               JsonFile(Pop(reg.learned_classes, object_type)),
                               reg.model_files \ {object_type},
                               reg.training_dirs \ {object_type}),
   raised    |-> "none",
   returned  |-> TRUE,
   attempted |-> {"model", "training"}]

\* delete_learned_object_type that pops the entry after the cleanup, not in
\* a finally clause
delete_learned_object_type_PopAfterCleanup(reg, object_type, failure) ==
  IF object_type \notin DOMAIN reg.learned_classes
    THEN DeleteRefused(reg)
  ELSE IF failure \in {"unlink", "rmtree"}
    THEN [reg       |-> reg,
          raised    |-> "OSError",
          returned  |-> FALSE,
          attempted |-> {"model"}]
  ELSE
    [reg       |-> RegistryState(Pop(reg.learned_classes, object_type),
                                 JsonFile(Pop(reg.learned_classes, object_type)),
                                 reg.model_files \ {object_type},
                                 reg.training_dirs \ {object_type}),
     raised    |-> "none",
     returned  |-> TRUE,
     attempted |-> {"model", "training"}]

\* FewShotLearningPipeline.delete_learned_object_type: the registry and its
\* storage after the call, what it raised, what it returned, and the parts
\* of the storage whose removal was attempted
delete_learned_object_type(reg, object_type, failure) ==
  IF object_type \notin DOMAIN reg.learned_classes
    THEN DeleteRefused(reg)
  ELSE
    LET has_model    == object_type \in reg.model_files
        has_dir      == object_type \in reg.training_dirs
        unlink_fails == has_model /\ failure = "unlink"
        rmtree_tried == has_dir /\ ~unlink_fails
        rmtree_fails == rmtree_tried /\ failure = "rmtree"
        save_fails   == failure \in {"save_open", "save_dump"}
        classes      == Pop(reg.learned_classes, object_type)
        raised       == IF unlink_fails \/ rmtree_fails \/ save_fails
                          THEN "OSError" ELSE "none"
    IN  [reg       |-> RegistryState(
                         classes,
                         _save_learned_classes(classes, reg.learned_file, failure),
                         IF has_model /\ ~unlink_fails
                           THEN reg.model_files \ {object_type}
                           ELSE reg.model_files,
                         IF rmtree_tried /\ ~rmtree_fails
                           THEN reg.training_dirs \ {object_type}
                           ELSE reg.training_dirs),
         raised    |-> raised,
         returned  |-> raised = "none",
         attempted |-> (IF has_model THEN {"model"} ELSE {})
                         \cup (IF rmtree_tried THEN {"training"} ELSE {})]

\* _load_learned_classes: json.load of the file, when it exists
_load_learned_classes(file) ==
  IF file.state = "corrupt"
    THEN [classes |-> <<>>, raised |-> "JSONDecodeError"]
    ELSE [classes |-> file.classes, raised |-> "none"]

\* the registry and its storage, read from the variables
CurrentRegistry ==
  RegistryState(learned_classes, learned_file, model_files, training_dirs)

\* the variables take the values of reg
RegistryBecomes(reg) ==
  /\ learned_classes' = reg.learned_classes
  /\ learned_file' = reg.learned_file
  /\ model_files' = reg.model_files
  /\ training_dirs' = reg.training_dirs

\* POST /api/learn-object with FewShotLearningPipeline.learn_new_object_type
\* and _save_learned_classes; fewer than 3 files are refused by the handler
Learn(object_type, sample_count, failure) ==
  /\ learn_calls < MaxLearns
  /\ learn_calls' = learn_calls + 1
  /\ UNCHANGED <<safety_stats, safetyVars, evalVars, aggVars, req_pc,
                 active_requests, db_results, uploads, yolo_calls,
                 last_response, fewShotVars>>
  /\ IF sample_count < 3
       THEN UNCHANGED <<learned_classes, learned_file, storeVars>>
       ELSE RegistryBecomes(
              learn_new_object_type(CurrentRegistry, object_type, sample_count,
                                    failure, learn_calls + 1).reg)

NextApi ==
  \/ \E r \in Requests : CountBegin(r)
  \/ \E r \in Requests, upload \in ApiUploads, object_type \in ApiTypes,
        image \in ApiImages, env \in ApiEnvironments :
       CountFinish(r, upload.content_type, upload.filename, object_type,
                   image, env.detector_ok, env.boxes, env.write_ok)
  \/ \E r \in Requests : CountLearnedBegin(r)
  \/ \E r \in Requests, object_type \in ApiTypes, env \in ApiEnvironments :
       CountLearnedFinish(r, object_type, env.detector_ok, env.boxes)
  \/ \E object_type \in LearnNames, sample_count \in LearnSampleCounts,
        failure \in ApiLearnFailures :
       Learn(object_type, sample_count, failure)

\* the application at start
Init ==
  /\ InitSafety
  /\ eval_call = NoEval
  /\ agg_call = NoAgg
  /\ InitApi

Spec == Init /\ [][NextApi]_vars

(***************************************************************************)
(* FewShotLearningPipeline called directly                                 *)
(***************************************************************************)
RegistryNames == {s_cat, s_dog}

\* learn calls: every failure point for each name with 3 images, a re-learn
\* with 4 images, and the calls the validation refuses
LearnInputs ==
  {[object_type |-> n, sample_count |-> 3, failure |-> f] :
      n \in RegistryNames, f \in LearnFailures}
    \cup {[object_type |-> n, sample_count |-> 4, failure |-> "none"] :
            n \in RegistryNames}
    \cup {[object_type |-> <<>>,  sample_count |-> 3, failure |-> "none"],
          [object_type |-> s_cat, sample_count |-> 2, failure |-> "none"],
          [object_type |-> s_cat, sample_count |-> 0, failure |-> "none"]}

\* get_few_shot_pipeline returned a pipeline: the last construction did not
\* raise
PipelineUp == ~(last_op.op = "restart" /\ last_op.raised # "none")

LastOp(op, object_type, sample_count, failure, out) ==
  [seq          |-> last_op.seq + 1,
   op           |-> op,
   object_type  |-> object_type,
   sample_count |-> sample_count,
   failure      |-> failure,
   raised       |-> out.raised,
   returned     |-> out.returned,
   attempted    |-> out.attempted,
   before       |-> CurrentRegistry]

LearnNewObjectType(object_type, sample_count, failure) ==
  /\ last_op.seq < MaxOps
  /\ PipelineUp
  /\ LET out == learn_new_object_type(CurrentRegistry, object_type,
                                      sample_count, failure, learn_calls + 1)
     IN  /\ RegistryBecomes(out.reg)
         /\ last_op' = LastOp("learn", object_type, sample_count, failure,
                              [raised    |-> out.raised,
                               returned  |-> out.raised = "none",
                               attempted |-> {}])
  /\ learn_calls' = learn_calls + 1
  /\ UNCHANGED <<safety_stats, safetyVars, evalVars, aggVars, req_pc,
                 active_requests, db_results, uploads, yolo_calls,
                 last_response, learn_pc, op_log, corrections_data,
                 db_corrections,
                 accuracy_gauges>>

DeleteLearnedObjectType(object_type, failure) ==
  /\ last_op.seq < MaxOps
  /\ PipelineUp
  /\ LET out == delete_learned_object_type(CurrentRegistry, object_type, failure)
     IN  /\ RegistryBecomes(out.reg)
         /\ last_op' = LastOp("delete", object_type, 0, failure, out)
  /\ UNCHANGED <<safety_stats, safetyVars, evalVars, aggVars, req_pc,
                 active_requests, db_results, uploads, yolo_calls,
                 last_response, learn_calls, learn_pc, op_log,
                 corrections_data, db_corrections,
                 accuracy_gauges>>

\* detect_with_learned_model called with an image on which the detector
\* reports nothing
DetectWithLearnedModel(object_type) ==
  /\ last_op.seq < MaxOps
  /\ PipelineUp
  /\ \E out \in detect_with_learned_model(
                    learned_classes, object_type,
                    ProcessImageOutcomes(TRUE, <<>>, object_type)) :
       last_op' = LastOp("detect", object_type, 0, "none",
                         [raised    |-> "none",
                          returned  |-> out.success,
                          attempted |-> {}])
  /\ UNCHANGED <<safety_stats, safetyVars, evalVars, aggVars, req_pc,
                 active_requests, db_results, uploads, yolo_calls,
                 last_response, learned_classes, learned_file, learn_calls,
                 storeVars, learn_pc, op_log, corrections_data,
                 db_corrections, accuracy_gauges>>

\* the process starts again: FewShotLearningPipeline.__init__ with
\* _load_learned_classes; the directories and the file stay as they are
Restart ==
  /\ last_op.seq < MaxOps
  /\ last_op.op \in {"learn", "delete"}
  /\ LET out == _load_learned_classes(learned_file)
     IN  /\ learned_classes' = out.classes
         /\ last_op' = LastOp("restart", <<>>, 0, "none",
                              [raised    |-> out.raised,
                               returned  |-> out.raised = "none",
                               attempted |-> {}])
  /\ UNCHANGED <<safety_stats, safetyVars, evalVars, aggVars, req_pc,
                 active_requests, db_results, uploads, yolo_calls,
                 last_response, learned_file, learn_calls, storeVars,
                 learn_pc, op_log, corrections_data, db_corrections,
                 accuracy_gauges>>

NextRegistry ==
  \/ \E inp \in LearnInputs :
       LearnNewObjectType(inp.object_type, inp.sample_count, inp.failure)
  \/ \E object_type \in RegistryNames, failure \in DeleteFailures :
       DeleteLearnedObjectType(object_type, failure)
  \/ \E object_type \in RegistryNames : DetectWithLearnedModel(object_type)
  \/ Restart

\* the pipeline right after construction on empty directories
InitRegistry ==
  /\ InitSafety
  /\ eval_call = NoEval
  /\ agg_call = NoAgg
  /\ InitApi

SpecRegistry == InitRegistry /\ [][NextRegistry]_vars

(***************************************************************************)
(* Learn, delete and correct requests served together                      *)
(*                                                                         *)
(* learn_new_object_type (the handler) awaits the reads of its files and   *)
(* then calls the pipeline; the delete and the correct handlers have no    *)
(* await, and the pipeline, the database and the metrics calls are plain   *)
(* function calls: on the one event loop each of them runs to its end.     *)
(***************************************************************************)
\* MetricsCollector.record_correction: the two lists of the object type
record_correction(data, object_type, predicted_count, corrected_count) ==
  LET known == IF object_type \in DOMAIN data
                 THEN data
                 ELSE (object_type :> [predictions |-> <<>>, corrections |-> <<>>])
                        @@ data
  IN  [known EXCEPT
         ![object_type] =
            [predictions |-> Append(@.predictions, predicted_count),
             corrections |-> Append(@.corrections, corrected_count)]]

\* the accuracy of n samples of which exact_matches agree,
\* (exact_matches / n) * 100, in thousandths of a percent, cut off
Accuracy(exact_matches, n) ==
  (exact_matches * 100000) \div n

\* an update of the gauges from the first sample on
_update_accuracy_metrics_NoMinimum(gauges, data, object_type) ==
  LET predictions == data[object_type].predictions
      corrections == data[object_type].corrections
      exact_matches ==
        Cardinality({i \in 1..Len(predictions) : predictions[i] = corrections[i]})
      accuracy == Accuracy(exact_matches, Len(predictions))
  IN  (object_type :> [accuracy |-> accuracy, precision |-> accuracy,
                       recall |-> accuracy]) @@ gauges

\* MetricsCollector._update_accuracy_metrics, called at the end of
\* record_correction: the three gauges of the object type are set from the
\* whole history of the type, once it holds 2 samples
_update_accuracy_metrics(gauges, data, object_type) ==
  IF object_type \notin DOMAIN data THEN gauges
  ELSE LET predictions == data[object_type].predictions
           corrections == data[object_type].corrections
       IN  IF Len(predictions) < 2 THEN gauges
           ELSE LET exact_matches ==
                      Cardinality({i \in 1..Len(predictions) :
                                     predictions[i] = corrections[i]})
                    accuracy == Accuracy(exact_matches, Len(predictions))
                IN  (object_type :> [accuracy  |-> accuracy,
                                     precision |-> accuracy,
                                     recall    |-> accuracy]) @@ gauges

\* an UPDATE that writes the corrected value over the count
store_correction_OverwritesCount(rows, result_id, corrected_count) ==
  [i \in 1..Len(rows) |->
     IF rows[i].result_id = result_id
       THEN [rows[i] EXCEPT !.count = corrected_count,
                            !.corrected_count = corrected_count]
       ELSE rows[i]]

\* DatabaseManager.store_correction: the UPDATE of count_results
store_correction(rows, result_id, corrected_count) ==
  [i \in 1..Len(rows) |->
     IF rows[i].result_id = result_id
       THEN [rows[i] EXCEPT !.corrected_count = corrected_count]
       ELSE rows[i]]

\* a SELECT without its WHERE clause
get_result_AnyRow(rows, result_id) ==
  {i \in 1..Len(rows) : TRUE}

\* DatabaseManager.get_result: the rows with this id
get_result(rows, result_id) ==
  {i \in 1..Len(rows) : rows[i].result_id = result_id}

\* an entry of op_log
Logged(op, req, object_type, sample_count, failure, now, result_id, corrected_count) ==
  [op              |-> op,
   req             |-> req,
   object_type     |-> object_type,
   sample_count    |-> sample_count,
   failure         |-> failure,
   now             |-> now,
   result_id       |-> result_id,
   corrected_count |-> corrected_count]

\* delete and correct requests served so far
MutationsDone == Cardinality({i \in 1..Len(op_log) : op_log[i].op # "learn"})

\* learn_new_object_type (the handler) up to the reads of its files
LearnBegin(r, object_type, sample_count) ==
  /\ learn_pc[r].pc = "new"
  /\ \A q \in 1..(r - 1) : learn_pc[q].pc # "new"
  /\ learn_pc' = [learn_pc EXCEPT
                    ![r] = IF sample_count < 3
                             THEN DoneLearnRequest
                             ELSE [pc           |-> "reading",
                                   object_type  |-> object_type,
                                   sample_count |-> sample_count]]
  /\ UNCHANGED <<safety_stats, safetyVars, evalVars, aggVars, req_pc,
                 active_requests, db_results, uploads, yolo_calls,
                 last_response, learned_classes, learned_file, learn_calls,
                 storeVars, last_op, op_log, corrections_data, db_corrections,
                 accuracy_gauges>>

\* the handler writing back a registry read when the process started
LearnFinish_Stale(r, failure) ==
  /\ learn_pc[r].pc = "reading"
  /\ RegistryBecomes(
       learn_new_object_type(EmptyRegistry, learn_pc[r].object_type,
                             learn_pc[r].sample_count, failure,
                             learn_calls + 1).reg)
  /\ learn_calls' = learn_calls + 1
  /\ op_log' = Append(op_log, Logged("learn", r, learn_pc[r].object_type,
                                     learn_pc[r].sample_count, failure,
                                     learn_calls + 1, 0, 0))
  /\ learn_pc' = [learn_pc EXCEPT ![r] = DoneLearnRequest]
  /\ UNCHANGED <<safety_stats, safetyVars, evalVars, aggVars, req_pc,
                 active_requests, db_results, uploads, yolo_calls,
                 last_response, last_op, corrections_data, db_corrections,
                 accuracy_gauges>>

\* learn_new_object_type (the handler) from the reads of its files on: the
\* pipeline call on the live registry
LearnFinish(r, failure) ==
  /\ learn_pc[r].pc = "reading"
  /\ RegistryBecomes(
       learn_new_object_type(CurrentRegistry, learn_pc[r].object_type,
                             learn_pc[r].sample_count, failure,
                             learn_calls + 1).reg)
  /\ learn_calls' = learn_calls + 1
  /\ op_log' = Append(op_log, Logged("learn", r, learn_pc[r].object_type,
                                     learn_pc[r].sample_count, failure,
                                     learn_calls + 1, 0, 0))
  /\ learn_pc' = [learn_pc EXCEPT ![r] = DoneLearnRequest]
  /\ UNCHANGED <<safety_stats, safetyVars, evalVars, aggVars, req_pc,
                 active_requests, db_results, uploads, yolo_calls,
                 last_response, last_op, corrections_data, db_corrections,
                 accuracy_gauges>>

\* DELETE /api/learned-objects/{object_type}
DeleteLearned(object_type, failure) ==
  /\ MutationsDone < MaxMutations
  /\ RegistryBecomes(
       delete_learned_object_type(CurrentRegistry, object_type, failure).reg)
  /\ op_log' = Append(op_log, Logged("delete", 0, object_type, 0, failure,
                                     0, 0, 0))
  /\ UNCHANGED <<safety_stats, safetyVars, evalVars, aggVars, req_pc,
                 active_requests, db_results, uploads, yolo_calls,
                 last_response, learn_calls, last_op, learn_pc,
                 corrections_data, db_corrections,
                 accuracy_gauges>>

\* POST /api/correct
CorrectCount(result_id, corrected_count) ==
  /\ MutationsDone < MaxMutations
  /\ op_log' = Append(op_log, Logged("correct", 0, <<>>, 0, "none", 0,
                                     result_id, corrected_count))
  /\ IF get_result(db_results, result_id) = {}
       THEN /\ Respond("correct", 404, "Original result not found", FALSE,
                       NoVerdict, <<>>, result_id, ProcessImageError)
            /\ UNCHANGED <<db_results, db_corrections, corrections_data,
                           accuracy_gauges>>
       ELSE LET original_result ==
                  db_results[CHOOSE i \in get_result(db_results, result_id) : TRUE]
                recorded ==
                  record_correction(corrections_data,
                                    original_result.object_type,
                                    original_result.count, corrected_count)
            IN  /\ db_corrections' = Append(db_corrections,
                                            [result_id       |-> result_id,
                                             corrected_count |-> corrected_count])
                /\ db_results' = store_correction(db_results, result_id,
                                                  corrected_count)
                /\ corrections_data' = recorded
                /\ accuracy_gauges' =
                     _update_accuracy_metrics(accuracy_gauges, recorded,
                                              original_result.object_type)
                /\ Respond("correct", 200, "", FALSE, NoVerdict,
                           original_result.object_type, result_id,
                           original_result)
  /\ UNCHANGED <<safety_stats, safetyVars, evalVars, aggVars, req_pc,
                 active_requests, uploads, yolo_calls, learned_classes,
                 learned_file, learn_calls, storeVars, last_op, learn_pc>>

\* learn requests arrive with 2 or 3 files
ConcurrentSampleCounts == {2, 3}

\* the save of a learn call works or the file cannot be opened; the unlink
\* of a delete call works or raises
ConcurrentLearnFailures == {"none", "save_open"}

ConcurrentDeleteFailures == {"none", "unlink"}

\* corrections name the stored result or an unknown one
CorrectionIds == {1, 2}

\* the corrected count differs from the count that was stored
CorrectionCounts == {3}

\* what the detector reported to the request served before: a cat and a dog
StoredBoxes ==
  <<[class_id |-> 15, confidence |-> 3333],
    [class_id |-> 16, confidence |-> 3000]>>

NextConcurrent ==
  \/ \E r \in LearnRequests, object_type \in RegistryNames,
        sample_count \in ConcurrentSampleCounts :
       LearnBegin(r, object_type, sample_count)
  \/ \E r \in LearnRequests, failure \in ConcurrentLearnFailures :
       LearnFinish(r, failure)
  \/ \E object_type \in RegistryNames, failure \in ConcurrentDeleteFailures :
       DeleteLearned(object_type, failure)
  \/ \E result_id \in CorrectionIds, corrected_count \in CorrectionCounts :
       CorrectCount(result_id, corrected_count)

\* the application after it has served one /api/count request for 'cat'
\* (count_objects on an allowed image, its result stored under id 1)
InitConcurrent ==
  LET checked == check_safety(ZeroStats, ImgSmall, s_cat, f_photo)
  IN  /\ safety_stats = checked.stats
      /\ last_check = NoCheck
      /\ eval_call = NoEval
      /\ agg_call = NoAgg
      /\ req_pc = [r \in Requests |-> IF r = 1 THEN "done" ELSE "new"]
      /\ active_requests = 0
      /\ uploads = 1
      /\ yolo_calls = 1
      /\ \E result \in ProcessImageOutcomes(TRUE, StoredBoxes, s_cat) :
            /\ db_results = <<StoredRow(1, s_cat, result)>>
            /\ last_response = [seq         |-> 1,
                                endpoint    |-> "count",
                                status      |-> 200,
                                reason      |-> "",
                                safety_run  |-> TRUE,
                                verdict     |-> checked.result,
                                object_type |-> s_cat,
                                result_id   |-> 1,
                                count       |-> result.count,
                                confidence  |-> result.confidence]
      /\ learned_classes = <<>>
      /\ learned_file = NoFile
      /\ learn_calls = 0
      /\ model_files = {}
      /\ training_dirs = {}
      /\ last_op = NoOp
      /\ learn_pc = [r \in LearnRequests |-> NewLearnRequest]
      /\ op_log = <<>>
      /\ corrections_data = <<>>
      /\ accuracy_gauges = <<>>
      /\ db_corrections = <<>>

SpecConcurrent == InitConcurrent /\ [][NextConcurrent]_vars

(***************************************************************************)
(* Counting requests and corrections of their stored results               *)
(***************************************************************************)
\* counting requests: a cat image on which the detector reports nothing, one
\* on which it reports a cat and a dog, a text file, and a type outside
\* the vocabulary
ResultRequests ==
  { [content_type |-> ct_png,  filename |-> f_photo, object_type |-> s_cat,
     image |-> ImgSmall, boxes |-> <<>>],
    [content_type |-> ct_png,  filename |-> f_photo, object_type |-> s_cat,
     image |-> ImgSmall, boxes |-> StoredBoxes],
    [content_type |-> ct_text, filename |-> f_notes, object_type |-> s_cat,
     image |-> ImgSmall, boxes |-> <<>>],
    [content_type |-> ct_png,  filename |-> f_photo, object_type |-> s_zebra,
     image |-> ImgSmall, boxes |-> <<>>] }

\* the object types of these requests
ResultTypes == {s_cat, s_zebra}

\* corrections name a result that can have been stored or one that cannot
ResultIds == 1..(MaxRequests + 1)

\* corrected counts: the two counts the detector palette yields
ResultCorrections == {0, 2}

NextResults ==
  \/ \E r \in Requests : CountBegin(r)
  \/ \E r \in Requests, req \in ResultRequests :
       CountFinish(r, req.content_type, req.filename, req.object_type,
                   req.image, TRUE, req.boxes, TRUE)
  \/ \E result_id \in ResultIds, corrected_count \in ResultCorrections :
       CorrectCount(result_id, corrected_count)

\* the application at start
InitResults ==
  /\ InitSafety
  /\ eval_call = NoEval
  /\ agg_call = NoAgg
  /\ InitApi

SpecResults == InitResults /\ [][NextResults]_vars

(***************************************************************************)
(* Properties of the safety pipeline                                       *)
(***************************************************************************)
\* the object type contains one of the blocklist terms, case-insensitively
BlocklistedType(object_type) ==
  \E i \in 1..Len(military_object_types) :
     Contains(military_object_types[i], Lower(object_type))

\* some keyword of the taxonomy occurs in the object type
KeywordHit(object_type) ==
  \E c \in 1..Len(military_keywords) :
     \E i \in 1..Len(military_keywords[c]) :
        Contains(military_keywords[c][i], Lower(object_type))

\* the scorer failed inside check_safety or inside detect_military_content
ScorerFailed(verdict) == verdict.error \/ verdict.details.error

\* C1: every check_safety call whose object type contains a blocklist term
\* returns a blocked verdict, whatever the image and the filename and also
\* when the scorer fails.
C1_BlocklistAlwaysBlocks ==
  (last_check.called /\ BlocklistedType(last_check.object_type))
    => last_check.verdict.blocked

\* C2: when the object type is blocklisted and the visual signal is detected
\* with a score of at least 0.8, the verdict is blocked and its reason is
\* the one of the object-type rule, not the one of the visual rule.
C2_TypeReasonWins ==
  (/\ last_check.called
   /\ BlocklistedType(last_check.object_type)
   /\ last_check.verdict.details.is_military_detected
   /\ last_check.verdict.details.military_confidence >= 80)
    => /\ last_check.verdict.blocked
       /\ last_check.verdict.reason = ReasonObjectType
       /\ last_check.verdict.reason # ReasonHighConfidence

\* C3: whenever the scorer fails, in check_safety or in
\* detect_military_content, the verdict is allowed and its reason says that
\* the check failed.
C3_FailOpen ==
  (last_check.called /\ ScorerFailed(last_check.verdict))
    => /\ last_check.verdict.safe
       /\ ~last_check.verdict.blocked
       /\ last_check.verdict.reason = ReasonCheckFailed

\* C6: in every verdict of check_safety the reason is non-empty if and only
\* if the verdict is blocked.
C6_ReasonIffBlocked ==
  last_check.called
    => ((last_check.verdict.reason # "") <=> last_check.verdict.blocked)

\* C7: without an internal failure the verdict is blocked exactly when the
\* object type is blocklisted, or the visual signal is detected with a score
\* of at least 0.8, or a taxonomy keyword occurs in the object type; and it
\* is allowed exactly when it is not blocked.
C7_RuleChain ==
  eval_call.called
    => /\ eval_call.verdict.blocked
            <=> \/ BlocklistedType(eval_call.object_type)
                \/ /\ eval_call.signal.is_military
                   /\ eval_call.signal.confidence >= 80
                \/ KeywordHit(eval_call.object_type)
       /\ eval_call.verdict.safe <=> ~eval_call.verdict.blocked

\* C7 witness: the visual rule alone blocks, at exactly 0.8
C7_Witness ==
  /\ eval_call.called
  /\ eval_call.verdict.blocked
  /\ eval_call.signal.confidence = 80
  /\ ~BlocklistedType(eval_call.object_type)
  /\ ~KeywordHit(eval_call.object_type)

(***************************************************************************)
(* Properties of the count aggregation                                     *)
(***************************************************************************)
MappedLabel(box) == _map_coco_to_custom(box.class_id)

\* the direct match rule: same label, case-insensitively, at 0.15 or more
CountedDirect(box, target) ==
  /\ Lower(MappedLabel(box)) = Lower(target)
  /\ box.confidence >= 1500

\* the cross-category rule: both labels are animals, at 0.3 or more
CountedCross(box, target) ==
  /\ MappedLabel(box) \in animal_types
  /\ Lower(target) \in animal_types
  /\ box.confidence >= 3000

CountedIndexes(boxes, target) ==
  {i \in 1..Len(boxes) : CountedDirect(boxes[i], target) \/ CountedCross(boxes[i], target)}

\* what the i-th box adds to the confidences, in 1/100000: nothing when not
\* counted, the raw confidence under the direct rule, 0.8 of it otherwise
Contribution(boxes, target, i) ==
  IF i \notin CountedIndexes(boxes, target) THEN 0
  ELSE IF CountedDirect(boxes[i], target) THEN 10 * boxes[i].confidence
  ELSE 8 * boxes[i].confidence

RECURSIVE ContributionsUpTo(_, _, _)
ContributionsUpTo(boxes, target, k) ==
  IF k = 0 THEN 0
  ELSE Contribution(boxes, target, k) + ContributionsUpTo(boxes, target, k - 1)

AggReturned ==
  agg_call.called /\ ~agg_call.raised /\ ~agg_call.result.error

\* C8: the count is the number of detections that match the target label at
\* 0.15 or more or that are animals, like the target, at 0.3 or more; each
\* detection is counted at most once and no other detection is counted.
C8_CountIsCountedDetections ==
  AggReturned
    => agg_call.result.count
         = Cardinality(CountedIndexes(agg_call.boxes, agg_call.object_type))

\* C8 witness: of two animal detections for another animal, the one at 0.3
\* is counted and the one just below is not
C8_Witness ==
  /\ AggReturned
  /\ agg_call.result.count = 1
  /\ Len(agg_call.boxes) = 2
  /\ \E i \in 1..2 :
        /\ agg_call.boxes[i].confidence = 3000
        /\ CountedCross(agg_call.boxes[i], agg_call.object_type)
        /\ ~CountedDirect(agg_call.boxes[i], agg_call.object_type)
  /\ \E i \in 1..2 :
        /\ agg_call.boxes[i].confidence = 2999
        /\ MappedLabel(agg_call.boxes[i]) \in animal_types
        /\ i \notin CountedIndexes(agg_call.boxes, agg_call.object_type)

\* C9 as stated: the returned confidence is exactly the mean of the
\* contributions of the counted detections, and count 0 with confidence 0.0
\* when nothing is counted.  (confidence is in thousandths: c / 1000 equals
\* total / (100000 * n) iff 100 * n * c = total.)
C9_ExactMean ==
  AggReturned
    => LET n == Cardinality(CountedIndexes(agg_call.boxes, agg_call.object_type))
           total == ContributionsUpTo(agg_call.boxes, agg_call.object_type,
                                      Len(agg_call.boxes))
       IN  IF n = 0
             THEN agg_call.result.count = 0 /\ agg_call.result.confidence = 0
             ELSE 100 * n * agg_call.result.confidence = total

\* C9 amended: the returned confidence is the mean of the contributions
\* rounded to three decimals (it differs from the mean by at most 0.0005),
\* and count 0 with confidence 0.0 when nothing is counted.
C9_RoundedMean ==
  AggReturned
    => LET n == Cardinality(CountedIndexes(agg_call.boxes, agg_call.object_type))
           total == ContributionsUpTo(agg_call.boxes, agg_call.object_type,
                                      Len(agg_call.boxes))
       IN  IF n = 0
             THEN agg_call.result.count = 0 /\ agg_call.result.confidence = 0
             ELSE /\ 100 * n * agg_call.result.confidence - total <= 50 * n
                  /\ total - 100 * n * agg_call.result.confidence <= 50 * n

\* C9 witness: a single cross-category detection at 0.3333, whose discounted
\* confidence 0.26664 is returned as 0.267
C9_Witness ==
  /\ AggReturned
  /\ Len(agg_call.boxes) = 1
  /\ CountedCross(agg_call.boxes[1], agg_call.object_type)
  /\ ~CountedDirect(agg_call.boxes[1], agg_call.object_type)
  /\ agg_call.boxes[1].confidence = 3333
  /\ agg_call.result.confidence = 267

\* C10: the count is a natural number, the number of counted detections and
\* at most total_detections; total_detections is the number of boxes of the
\* detector, each kept with its mapped label; the confidence is in [0, 1].
C10_ResultInvariant ==
  AggReturned
    => /\ agg_call.result.count \in Nat
       /\ agg_call.result.count
            = Cardinality(CountedIndexes(agg_call.boxes, agg_call.object_type))
       /\ agg_call.result.count <= agg_call.result.total_detections
       /\ agg_call.result.total_detections = Len(agg_call.boxes)
       /\ Len(agg_call.result.detected_objects) = Len(agg_call.boxes)
       /\ \A i \in 1..Len(agg_call.boxes) :
             agg_call.result.detected_objects[i] = MappedLabel(agg_call.boxes[i])
       /\ agg_call.result.confidence >= 0
       /\ agg_call.result.confidence <= 1000

\* C10 witness: two boxes, one counted with confidence 1.0 and one not
C10_Witness ==
  /\ AggReturned
  /\ Len(agg_call.boxes) = 2
  /\ agg_call.result.count = 1
  /\ agg_call.result.total_detections = 2
  /\ agg_call.result.confidence = 1000

\* C11: when the model load, the image decoding or the inference raises,
\* process_image does not raise: it returns a result with count 0 and
\* confidence 0.0.
C11_DetectorFailureContained ==
  (agg_call.called /\ agg_call.stage # "none")
    => /\ ~agg_call.raised
       /\ agg_call.result.count = 0
       /\ agg_call.result.confidence = 0

(***************************************************************************)
(* Properties of the counting endpoints                                    *)
(***************************************************************************)
\* the step completes a request of the given endpoint
Responds(endpoint) ==
  /\ last_response'.seq # last_response.seq
  /\ last_response'.endpoint = endpoint

\* C4: a /api/count request whose safety check returns blocked does not
\* invoke the detector, writes no upload, stores no row and answers 403
\* with the reason of the verdict; and the detector is invoked by /api/count
\* only in a request whose safety check returned allowed.
C4_SafetyGate ==
  [][Responds("count")
       => /\ (last_response'.safety_run /\ last_response'.verdict.blocked)
               => /\ yolo_calls' = yolo_calls
                  /\ uploads' = uploads
                  /\ db_results' = db_results
                  /\ last_response'.status = 403
                  /\ last_response'.reason = last_response'.verdict.reason
          /\ (yolo_calls' # yolo_calls)
               => /\ last_response'.safety_run
                  /\ last_response'.verdict.safe
                  /\ ~last_response'.verdict.blocked]_vars

\* C4 witness: a blocked /api/count request answered 403 after another
\* request has run the detector, written its upload and stored its row
C4_Witness ==
  /\ last_response.endpoint = "count"
  /\ last_response.safety_run
  /\ last_response.verdict.blocked
  /\ last_response.status = 403
  /\ yolo_calls > 0
  /\ uploads > 0
  /\ db_results # <<>>

\* C5: every count result returned by a counting endpoint, and so every
\* stored one, comes from a request whose safety check ran and returned
\* allowed.
C5_CountOnlyAfterAllowed ==
  last_response.status = 200
    => /\ last_response.safety_run
       /\ last_response.verdict.safe

(***************************************************************************)
(* Properties of the learned-category registry                             *)
(***************************************************************************)
\* the last call was a delete of a name the registry held
DeletedLearnedName ==
  /\ last_op.op = "delete"
  /\ last_op.object_type \in DOMAIN last_op.before.learned_classes

\* the registry, in memory and persisted, is as it was before the last call
RegistryAsBefore ==
  /\ learned_classes = last_op.before.learned_classes
  /\ learned_file = last_op.before.learned_file

\* C12: a learn call with fewer than 3 training samples or with an empty
\* name raises a validation error and leaves the registry, in memory and
\* persisted, as it was before the call.
C12_LearnValidation ==
  (/\ last_op.op = "learn"
   /\ (last_op.sample_count < 3 \/ last_op.object_type = <<>>))
    => /\ last_op.raised = "ValueError"
       /\ RegistryAsBefore

\* C12 witness: a learn call with 2 samples refused while the registry
\* holds an entry
C12_Witness ==
  /\ last_op.op = "learn"
  /\ last_op.sample_count = 2
  /\ last_op.object_type # <<>>
  /\ last_op.raised = "ValueError"
  /\ DOMAIN learned_classes # {}

\* C13: after a successful learn call on a name the registry already holds,
\* the registry has the same names as before, the entry of the name is the
\* one of this call (sample count, timestamp, artifact) and the entries of
\* the other names are unchanged.
C13_RelearnReplaces ==
  (/\ last_op.op = "learn"
   /\ last_op.raised = "none"
   /\ last_op.object_type \in DOMAIN last_op.before.learned_classes)
    => /\ DOMAIN learned_classes = DOMAIN last_op.before.learned_classes
       /\ learned_classes[last_op.object_type]
            = Snapshot(last_op.object_type, last_op.sample_count, learn_calls)
       /\ \A k \in DOMAIN learned_classes \ {last_op.object_type} :
             learned_classes[k] = last_op.before.learned_classes[k]

\* C13 witness: a name learnt with 3 samples is learnt again with 4 while
\* another name is registered
C13_Witness ==
  /\ last_op.op = "learn"
  /\ last_op.raised = "none"
  /\ last_op.object_type \in DOMAIN last_op.before.learned_classes
  /\ last_op.before.learned_classes[last_op.object_type].training_images_count = 3
  /\ last_op.sample_count = 4
  /\ DOMAIN learned_classes = RegistryNames

\* C14: a delete call on a name absent from the registry returns False and
\* leaves the registry, the persisted file, the model files and the
\* training directories unchanged.
C14_DeleteAbsent ==
  (/\ last_op.op = "delete"
   /\ last_op.object_type \notin DOMAIN last_op.before.learned_classes)
    => /\ ~last_op.returned
       /\ last_op.raised = "none"
       /\ RegistryAsBefore
       /\ model_files = last_op.before.model_files
       /\ training_dirs = last_op.before.training_dirs

\* C14 witness: a delete of an absent name whose training directory was
\* left by a failed learn call, while another name is registered
C14_Witness ==
  /\ last_op.op = "delete"
  /\ last_op.object_type \notin DOMAIN last_op.before.learned_classes
  /\ last_op.object_type \in training_dirs
  /\ DOMAIN learned_classes # {}

\* C15: after a delete call on a learned name the name is absent from the
\* registry, also when the removal of the model file or of the training
\* directory fails.
C15_DeletePops ==
  DeletedLearnedName => last_op.object_type \notin DOMAIN learned_classes

\* C15 witness: the removal of the model file failed in a delete call on a
\* learned name
C15_Witness ==
  /\ DeletedLearnedName
  /\ last_op.failure = "unlink"
  /\ last_op.raised = "OSError"
  /\ last_op.object_type \in model_files

\* C16: a delete call on a learned name returns True also when the removal
\* of the model file or of the training directory fails.
C16_DeleteReportsSuccess ==
  (DeletedLearnedName /\ last_op.failure \in {"none", "unlink", "rmtree"})
    => /\ last_op.returned
       /\ last_op.raised = "none"

\* C17: in a delete call on a learned name whose model file and training
\* directory exist, the removal of each of the two is attempted, whether or
\* not the other removal fails.
C17_CleanupIndependent ==
  (/\ DeletedLearnedName
   /\ last_op.object_type \in last_op.before.model_files
   /\ last_op.object_type \in last_op.before.training_dirs)
    => last_op.attempted = {"model", "training"}

\* C18: a learn call that raises leaves the registry, in memory and
\* persisted, as it was before the call.
C18_FailedLearnLeavesRegistry ==
  (last_op.op = "learn" /\ last_op.raised # "none") => RegistryAsBefore

\* C19: after every learn or delete call that returned, the persisted file
\* equals the registry in memory, and a restart after any sequence of calls
\* reloads the registry that was in memory.
C19_PersistedTracksMemory ==
  /\ (last_op.op \in {"learn", "delete"} /\ last_op.raised = "none")
       => _load_learned_classes(learned_file)
            = [classes |-> learned_classes, raised |-> "none"]
  /\ last_op.op = "restart"
       => /\ last_op.raised = "none"
          /\ learned_classes = last_op.before.learned_classes

\* a name is learned when the registry holds it
IsLearned(classes, name) ==
  name \in get_learned_object_types(classes)

\* C21: each category name follows the lifecycle absent -> learned ->
\* absent with no other observable state. get(name) returns a record and
\* list() contains name exactly while name is learned, and counting with
\* the learned model succeeds only while name is learned; a delete call on
\* name leaves it absent, and an absent name becomes learned only by a
\* learn call on it, so that after delete(name) a count-learned request for
\* name fails as not learned until name is learned again.
C21_Lifecycle ==
  /\ [](\A name \in RegistryNames :
          /\ get_learning_info(learned_classes, name) # {}
                <=> IsLearned(learned_classes, name)
          /\ (last_op.op = "detect" /\ last_op.object_type = name)
                => (last_op.returned <=> IsLearned(learned_classes, name))
          /\ (last_op.op = "delete" /\ last_op.object_type = name)
                => ~IsLearned(learned_classes, name))
  /\ [][\A name \in RegistryNames :
          (~IsLearned(learned_classes, name) /\ IsLearned(learned_classes', name))
            => (last_op'.op = "learn" /\ last_op'.object_type = name)]_vars

(***************************************************************************)
(* Properties of requests served together                                  *)
(***************************************************************************)
\* the shared state after one logged call, run alone
ApplyLogged(st, entry) ==
  CASE entry.op = "learn" ->
         [st EXCEPT !.reg = learn_new_object_type(
                               st.reg, entry.object_type, entry.sample_count,
                               entry.failure, entry.now).reg]
    [] entry.op = "delete" ->
         [st EXCEPT !.reg = delete_learned_object_type(
                               st.reg, entry.object_type, entry.failure).reg]
    [] entry.op = "correct" ->
         IF get_result(st.rows, entry.result_id) = {} THEN st
         ELSE
         LET original_result ==
               st.rows[CHOOSE i \in get_result(st.rows, entry.result_id) : TRUE]
             recorded ==
               record_correction(st.data, original_result.object_type,
                                 original_result.count, entry.corrected_count)
         IN  [st EXCEPT
                !.rows   = store_correction(@, entry.result_id,
                                            entry.corrected_count),
                !.table  = Append(@, [result_id       |-> entry.result_id,
                                      corrected_count |-> entry.corrected_count]),
                !.data   = recorded,
                !.gauges = _update_accuracy_metrics(
                             @, recorded, original_result.object_type)]

\* the shared state after the logged calls, run one after the other
RECURSIVE Sequentially(_, _)
Sequentially(st, log) ==
  IF log = <<>> THEN st
  ELSE Sequentially(ApplyLogged(st, Head(log)), Tail(log))

\* the shared state before any learn, delete or correct request
BeforeRequests ==
  [reg   |-> EmptyRegistry,
   rows  |-> [i \in 1..Len(db_results) |->
                [db_results[i] EXCEPT !.corrected_count = -1]],
   table  |-> <<>>,
   data   |-> <<>>,
   gauges |-> <<>>]

C22_CountersCountCalls ==
  /\ safety_stats.total_requests = last_check.calls
  /\ safety_stats.blocked_requests = last_check.blocked_calls
  /\ last_check.calls = 0 => safety_stats = ZeroStats

\* C22 witness: of two calls since the last reset one was blocked by the
\* object type alone and the last one failed open
C22_Witness ==
  /\ last_check.calls = 2
  /\ last_check.blocked_calls = 1
  /\ last_check.verdict.error
  /\ safety_stats.military_detections = 0
  /\ safety_stats.total_requests = 2

\* C26: for an object type without sensitive keyword and a filename
\* without military keyword, the verdict is blocked exactly when the image
\* has more than 500000 pixels, an aspect ratio within [0.3, 3.0] and a
\* mean brightness, computed from its pixels, below 0.2.
C26_LargeDarkImageBlocked ==
  (/\ last_check.called
   /\ ~BlocklistedType(last_check.object_type)
   /\ ~KeywordHit(last_check.object_type)
   /\ ~AnyContained(military_filename_keywords, Lower(last_check.filename)))
    => (last_check.verdict.blocked
          <=> /\ last_check.image.width * last_check.image.height > 500000
              /\ 10 * last_check.image.width >= 3 * last_check.image.height
              /\ last_check.image.width <= 3 * last_check.image.height
              /\ _calculate_brightness(last_check.image) < 20)

\* C27: in every state of the statistics blocked_requests and
\* military_detections are at most total_requests, so that block_rate and
\* military_detection_rate lie within [0, 1].
C27_CountersBounded ==
  /\ safety_stats.blocked_requests <= safety_stats.total_requests
  /\ safety_stats.military_detections <= safety_stats.total_requests

(***************************************************************************)
(* Properties of the annotated image                                       *)
(***************************************************************************)
\* C28: when process_image writes an annotated image, the detections drawn
\* on it are exactly the counted ones, so the number of rectangles equals
\* count.
C28_DrawnAreCounted ==
  (AggReturned /\ agg_call.result.annotated)
    => /\ agg_call.result.drawn
            = CountedIndexes(agg_call.boxes, agg_call.object_type)
       /\ Cardinality(agg_call.result.drawn) = agg_call.result.count

\* the requests of the two counting endpoints that have entered their
\* handler and not left it
InFlight ==
  {r \in 1..MaxRequests : req_pc[r] \in {"count_reading", "learned_reading"}}

\* C29: the active-requests gauge is balanced. Every /api/count and
\* /api/count-learned request increments it once on entry and decrements it
\* once on exit, whatever the path (success, validation error, safety block,
\* not learned, internal error): under any interleaving the gauge equals the
\* number of requests in flight, so it is never negative and it is 0 once
\* every request has completed.
C29_GaugeBalanced ==
  /\ active_requests = Cardinality(InFlight)
  /\ active_requests >= 0
  /\ (\A r \in 1..MaxRequests : req_pc[r] \in {"new", "done"})
       => active_requests = 0

\* two requests were in flight together; both have completed, one with an
\* error answer and one with a stored result, and the gauge is back at 0
C29_Witness ==
  /\ \A r \in 1..MaxRequests : req_pc[r] = "done"
  /\ last_response.status \in {400, 403, 500}
  /\ Len(db_results) >= 1
  /\ active_requests = 0

(***************************************************************************)
(* Properties of corrections                                               *)
(***************************************************************************)
\* the stored result a correction row names
CorrectedRow(k) ==
  db_results[CHOOSE i \in get_result(db_results, db_corrections[k].result_id) : TRUE]

\* the corrections submitted for results of an object type
CorrectionsOf(object_type) ==
  {k \in 1..Len(db_corrections) : CorrectedRow(k).object_type = object_type}

\* those of them whose corrected count is the count that was produced
ExactMatchesOf(object_type) ==
  {k \in CorrectionsOf(object_type) :
     CorrectedRow(k).count = db_corrections[k].corrected_count}

\* C23: after n corrections for an object type, no accuracy, precision or
\* recall value is emitted for the type while n < 2; from n = 2 on the
\* accuracy is (number of corrections whose predicted count equals the
\* corrected count) / n * 100 over the whole history of the type (here in
\* thousandths of a percent, cut off), and precision and recall are equal
\* to it.
C23_AccuracyFromHistory ==
  /\ DOMAIN accuracy_gauges \subseteq ResultTypes
  /\ \A object_type \in ResultTypes :
       LET n == Cardinality(CorrectionsOf(object_type))
           exact_matches == Cardinality(ExactMatchesOf(object_type))
       IN  /\ n < 2 => object_type \notin DOMAIN accuracy_gauges
           /\ n >= 2 =>
                /\ object_type \in DOMAIN accuracy_gauges
                /\ LET stat == accuracy_gauges[object_type]
                   IN  /\ stat.accuracy * n <= exact_matches * 100000
                       /\ exact_matches * 100000 < (stat.accuracy + 1) * n
                       /\ stat.precision = stat.accuracy
                       /\ stat.recall = stat.accuracy

\* C23 witness: two corrections for 'cat', one of them equal to the
\* predicted count: the three gauges read 50.0
C23_Witness ==
  /\ Cardinality(CorrectionsOf(s_cat)) = 2
  /\ Cardinality(ExactMatchesOf(s_cat)) = 1
  /\ s_cat \in DOMAIN accuracy_gauges
  /\ accuracy_gauges[s_cat].accuracy = 50000
  /\ accuracy_gauges[s_cat].recall = 50000

\* C24 as stated: a stored count result is never changed after it was
\* written, whatever corrections are submitted; corrections are kept in
\* separate records only.
C24_StoredResultNeverMutated ==
  [][\A i \in 1..Len(db_results) :
       /\ i <= Len(db_results')
       /\ db_results'[i] = db_results[i]]_vars

\* C24 amended: a correction never changes the result id, the object type,
\* the count or the confidence of a stored count result; it changes the
\* corrected_count column of the result it names, and only together with
\* the insertion of a separate correction record that holds the same value.
C24_CorrectionKeepsCountedFields ==
  [][\A i \in 1..Len(db_results) :
       /\ i <= Len(db_results')
       /\ db_results'[i].result_id = db_results[i].result_id
       /\ db_results'[i].object_type = db_results[i].object_type
       /\ db_results'[i].count = db_results[i].count
       /\ db_results'[i].confidence = db_results[i].confidence
       /\ db_results'[i].corrected_count # db_results[i].corrected_count
            => db_corrections' =
                 Append(db_corrections,
                        [result_id       |-> db_results[i].result_id,
                         corrected_count |-> db_results'[i].corrected_count])]_vars

\* C24 witness: a stored result was corrected twice, to counts different
\* from the one produced; it holds the last corrected count beside its
\* count, and the corrections table holds both
C24_Witness ==
  \E i \in 1..Len(db_results) :
    /\ db_results[i].count = 2
    /\ db_results[i].corrected_count = 0
    /\ Cardinality({k \in 1..Len(db_corrections) :
                      db_corrections[k].result_id = db_results[i].result_id}) = 2

\* C25: a request rejected by validation changes no state. A /api/count
\* request for a type outside the vocabulary is answered 400, and every
\* 400 answer of /api/count is given before any safety evaluation: the
\* safety counters are unchanged, the detector is not run, no upload is
\* written and no result is stored. A /api/correct request for an unknown
\* result id is answered 404 and stores no correction, changes no result
\* and appends nothing to the accuracy history.
C25_RejectedChangesNothing ==
  [][/\ (Responds("count") /\ ~InVocabulary(last_response'.object_type))
          => last_response'.status = 400
     /\ (Responds("count") /\ last_response'.status = 400)
          => /\ ~last_response'.safety_run
             /\ UNCHANGED <<safety_stats, yolo_calls, uploads, db_results,
                            db_corrections, corrections_data, accuracy_gauges>>
     /\ (Responds("correct")
           /\ \A i \in 1..Len(db_results) :
                 db_results[i].result_id # last_response'.result_id)
          => /\ last_response'.status = 404
             /\ UNCHANGED <<safety_stats, yolo_calls, uploads, db_results,
                            db_corrections, corrections_data, accuracy_gauges>>
    ]_vars

\* C25 witness: of two counting requests one was stored and the other one
\* was refused before the safety check, and a correction for an unknown
\* result id has just been answered 404
C25_Witness ==
  /\ \A r \in Requests : req_pc[r] = "done"
  /\ Len(db_results) = 1
  /\ safety_stats.total_requests = 1
  /\ last_response.endpoint = "correct"
  /\ last_response.status = 404
  /\ db_corrections = <<>>

\* C30: each stored count result contributes at most one sample to the
\* accuracy history of its type, however often it is corrected, and the
\* predicted value of every sample is the count originally produced.
C30_OneSamplePerResult ==
  \A object_type \in ResultTypes :
    LET corrected_results ==
          {i \in 1..Len(db_results) :
             /\ db_results[i].object_type = object_type
             /\ \E k \in 1..Len(db_corrections) :
                   db_corrections[k].result_id = db_results[i].result_id}
        samples ==
          IF object_type \in DOMAIN corrections_data
            THEN corrections_data[object_type].predictions
            ELSE <<>>
    IN  /\ Len(samples) <= Cardinality(corrected_results)
        /\ \A k \in 1..Len(samples) :
              \E i \in corrected_results : db_results[i].count = samples[k]

====
